---- MODULE Spec2Model ----
(***************************************************************************)
(* A model of pyNeVer's symbolic bound propagation (BoundsManager), of its *)
(* layer descriptors (nodes.py) and of the convolution-to-affine reducer.  *)
(*                                                                         *)
(* Real numbers are exact rationals <<n, d>> with d > 0 in lowest terms;   *)
(* the floating-point rounding of numpy is not modelled.  Tuples and       *)
(* arrays are sequences (index 1 in the model is index 0 in the source).   *)
(* An optional value is a sequence of length 0 (None) or 1.                *)
(***************************************************************************)
EXTENDS Integers, Sequences, FiniteSets, TLC

VARIABLES
    \* BoundsManager (bounds_manager.py)
    layers,                          \* get_abstract_network(self.abst_net)
    input_hyper_rect,                \* property_converter.get_vectors()
    numeric_bounds,                  \* self.numeric_bounds
    pc,                              \* position of compute_bounds
    err,                             \* the exception that ended compute_bounds
    i,                               \* loop index of compute_bounds (1-based)
    current_input_bounds,
    symbolic_dense_output_bounds,
    symbolic_activation_output_bounds,
    preactivation_bounds,
    postactivation_bounds,
    symbolic_bounds,
    numeric_preactivation_bounds,
    numeric_postactivation_bounds,
    returned,                        \* the value compute_bounds returned
    \* one layer node (nodes.py) and the calls of its update_input
    node,                            \* the attributes of the object
    node0,                           \* the attributes it had after construction
    node_exc,                        \* how the last call ended: "none" before any
    same_in_dim,                     \* every call passed the in_dim of construction
    all_ok,                          \* every call returned
    \* one ConvNode and a call of get_weights_as_fc_matrices
    conv_node,
    conv_input,                      \* an input tensor X of shape in_dim
    fc_matrices,                     \* what the call returned, or that it raised
    \* one call of a ReLU envelope function of bounds_manager.py
    corners,                         \* the arguments [lower, upper], two vectors
    envelope,                        \* which function was called: "none" before
    ks_bs,                           \* what it returned
    \* one constructor call of a layer class, then one call of update_input
    request,                         \* the class and the arguments
    outcome,                         \* how __init__ ended
    updated,                         \* how update_input ended, and its in_dim
    \* one call of exec_instance of exp_launcher.py
    timeout_seconds,                 \* the argument of exec_instance
    at,                              \* the statement exec_instance is at
    setting,                         \* index of the for loop in pynever_setting
    alarm,                           \* a SIGALRM is scheduled and not yet delivered
    propagating,                     \* the exception that is propagating, or "none"
    safe,                            \* the local safe
    time_taken,                      \* time_end - time_start, in whole seconds
    part_string,                     \* the fields appended, each ends with a comma
    logger_stream,                   \* the settings logger_stream has announced
    logger_file                      \* the rows written to the log file

bmvars == <<layers, input_hyper_rect, numeric_bounds, pc, err, i,
            current_input_bounds, symbolic_dense_output_bounds,
            symbolic_activation_output_bounds, preactivation_bounds,
            postactivation_bounds, symbolic_bounds,
            numeric_preactivation_bounds, numeric_postactivation_bounds,
            returned>>

nodevars == <<node, node0, node_exc, same_in_dim, all_ok>>

convvars == <<conv_node, conv_input, fc_matrices>>

coefvars == <<corners, envelope, ks_bs>>

ctorvars == <<request, outcome, updated>>

launchvars == <<timeout_seconds, at, setting, alarm, propagating, safe, time_taken,
                part_string, logger_stream, logger_file>>

vars == <<bmvars, nodevars, convvars, coefvars, ctorvars, launchvars>>

(***************************************************************************)
(* Bounds of the model.                                                    *)
(***************************************************************************)
MaxLayers == 3
MaxNeurons == 2

(***************************************************************************)
(* Optional values and local variables that are not bound yet.             *)
(***************************************************************************)
None == <<>>
Some(v) == <<v>>
Unbound == [unbound |-> TRUE]

(***************************************************************************)
(* Exact rational arithmetic standing for numpy's float64.                 *)
(***************************************************************************)
Abs(n) == IF n < 0 THEN -n ELSE n

RECURSIVE GCD(_, _)
GCD(a, b) == IF b = 0 THEN a ELSE GCD(b, a % b)

Norm(n, d) ==
    LET s == IF d < 0 THEN -1 ELSE 1
        g == GCD(Abs(n), Abs(d))
    IN  IF n = 0 THEN <<0, 1>> ELSE <<(s * n) \div g, (s * d) \div g>>

R(n) == <<n, 1>>
Zero == R(0)
One == R(1)
RAdd(a, b) == Norm(a[1] * b[2] + b[1] * a[2], a[2] * b[2])
RNeg(a) == <<-a[1], a[2]>>
RSub(a, b) == RAdd(a, RNeg(b))
RMul(a, b) == Norm(a[1] * b[1], a[2] * b[2])
RDiv(a, b) == Norm(a[1] * b[2], a[2] * b[1])
RLe(a, b) == a[1] * b[2] <= b[1] * a[2]
RLt(a, b) == a[1] * b[2] < b[1] * a[2]
RMax(a, b) == IF RLe(a, b) THEN b ELSE a
RMin(a, b) == IF RLe(a, b) THEN a ELSE b

RECURSIVE RSum(_, _)
RSum(s, n) == IF n = 0 THEN Zero ELSE RAdd(RSum(s, n - 1), s[n])

RECURSIVE ISum(_, _)
ISum(s, n) == IF n = 0 THEN 0 ELSE ISum(s, n - 1) + s[n]

RECURSIVE IProd(_, _)
IProd(s, n) == IF n = 0 THEN 1 ELSE IProd(s, n - 1) * s[n]

\* a numpy array is a value: the elements of a vector, the rows of a matrix
Array1(v) == SubSeq(v, 1, Len(v))
Array2(M) == Array1([a \in 1..Len(M) |-> Array1(M[a])])

NRows(M) == Len(M)
NCols(M) == IF Len(M) = 0 THEN 0 ELSE Len(M[1])

ToRatVector(v) == Array1([a \in 1..Len(v) |-> R(v[a])])
ToRatMatrix(M) == Array1([a \in 1..Len(M) |-> ToRatVector(M[a])])

\* numpy: A.dot(B) for a matrix A and a matrix B
MatMul(A, B) ==
    Array2([a \in 1..NRows(A) |->
               [c \in 1..NCols(B) |->
                   RSum([b \in 1..NRows(B) |-> RMul(A[a][b], B[b][c])], NRows(B))]])

\* numpy: A.dot(v) for a matrix A and a vector v
MatVec(A, v) ==
    Array1([a \in 1..NRows(A) |->
               RSum([b \in 1..Len(v) |-> RMul(A[a][b], v[b])], Len(v))])

MatAdd(A, B) ==
    Array2([a \in 1..NRows(A) |-> [c \in 1..NCols(A) |-> RAdd(A[a][c], B[a][c])]])
VecAdd(u, v) == Array1([a \in 1..Len(u) |-> RAdd(u[a], v[a])])

\* np.identity(n), np.zeros(n)
Identity(n) == Array2([a \in 1..n |-> [b \in 1..n |-> IF a = b THEN One ELSE Zero]])
Zeros(n) == Array1([a \in 1..n |-> Zero])

(***************************************************************************)
(* numpy helpers on integer arrays.  A 2-D array is [nr, nc, d]: its shape *)
(* and its rows, so that arrays with an empty axis keep their shape.       *)
(***************************************************************************)
Max0(n) == IF n < 0 THEN 0 ELSE n

\* int(a / b) of Python for b > 0: truncation toward zero
TruncDiv(a, b) == IF a >= 0 THEN a \div b ELSE -((-a) \div b)

\* ceil(a / b) for a >= 0, b > 0: the length of range(0, a, b)
CeilDiv(a, b) == (a + b - 1) \div b

Arr2(nr, nc, d) == [nr |-> nr, nc |-> nc, d |-> Array2(d)]

\* np.zeros((nr, nc))
ZerosArr(nr, nc) == Arr2(nr, nc, [a \in 1..nr |-> [b \in 1..nc |-> 0]])

\* scipy.linalg.toeplitz(c, r): first column c, first row r (r[0] is ignored)
toeplitz(c, r) ==
    Arr2(Len(c), Len(r),
         [a \in 1..Len(c) |->
            [b \in 1..Len(r) |-> IF a >= b THEN c[a - b + 1] ELSE r[b - a + 1]]])

\* t[0:t.shape[0]:s, p:t.shape[1]-p]
StrideTrim(t, s, p) ==
    LET nr == CeilDiv(t.nr, s)
        nc == Max0(t.nc - 2 * p)
    IN  Arr2(nr, nc, [a \in 1..nr |-> [b \in 1..nc |-> t.d[(a - 1) * s + 1][p + b]]])

\* numpy broadcasting of an assigned array of shape (sr, sc) to a slice (tr, tc)
Broadcastable(sr, sc, tr, tc) == (sr = tr \/ sr = 1) /\ (sc = tc \/ sc = 1)

(***************************************************************************)
(* Python objects: a record of attributes.  A constructor takes the        *)
(* attributes the object has when it is entered (none for a new object)    *)
(* and yields the attributes it has at the exit, with ok = FALSE if the    *)
(* exit is a raised exception.                                             *)
(***************************************************************************)
SetAttrs(self, fields) ==
    [f \in (DOMAIN self) \cup (DOMAIN fields) |->
        IF f \in DOMAIN fields THEN fields[f] ELSE self[f]]

Raised(self, exc) == [ok |-> FALSE, self |-> self, exc |-> exc]
Returned(self) == [ok |-> TRUE, self |-> self, exc |-> "none"]

NewObject(class) == [class |-> class]

LayerNode__init__(self, identifier, in_dim, out_dim) ==
    SetAttrs(self, [identifier |-> identifier, in_dim |-> in_dim, out_dim |-> out_dim])

(***************************************************************************)
(* Tensors of parameters (numpy arrays): the shape and the elements in     *)
(* row-major order.                                                        *)
(***************************************************************************)
Tensor(shape, d) == [shape |-> shape, d |-> d]

\* a tensor of the given shape with every element equal to v
Full(shape, v) == Tensor(shape, [a \in 1..IProd(shape, Len(shape)) |-> v])

\* the rows of a 2-D tensor
Rows(t) ==
    Array2([a \in 1..t.shape[1] |->
               [b \in 1..t.shape[2] |-> t.d[(a - 1) * t.shape[2] + b]]])

\* weight[f][ch] of a 4-D tensor, as rows
Filter2D(t, f, ch) ==
    Array2([y \in 1..t.shape[3] |->
        [x \in 1..t.shape[4] |->
            t.d[(((f - 1) * t.shape[2] + (ch - 1)) * t.shape[3] + (y - 1)) * t.shape[4] + x]]])

(***************************************************************************)
(* ConvNode (nodes.py).                                                    *)
(***************************************************************************)
\* ConvOutDim with the begin padding of the axis counted twice
ConvOutDim_begin_padding_twice(in_dim, out_channels, kernel_size, stride, padding, dilation) ==
    [a \in 1..Len(in_dim) |->
        IF a = 1 THEN out_channels
        ELSE ((in_dim[a] + padding[a - 1] + padding[a - 1]
               - dilation[a - 1] * (kernel_size[a - 1] - 1) - 1) \div stride[a - 1]) + 1]

ConvOutDim(in_dim, out_channels, kernel_size, stride, padding, dilation) ==
    [a \in 1..Len(in_dim) |->
        IF a = 1 THEN out_channels
        ELSE ((in_dim[a] + padding[a - 1] + padding[a + Len(in_dim) - 2]
               - dilation[a - 1] * (kernel_size[a - 1] - 1) - 1) \div stride[a - 1]) + 1]

ConvWeightSize(in_channels, out_channels, kernel_size, groups) ==
    <<out_channels, in_channels \div groups>> \o kernel_size

\* weight and bias are optional: None draws a random tensor of the right shape,
\* which the caller passes as rnd_weight and rnd_bias
ConvNode__init__(self, identifier, in_dim, out_channels, kernel_size, stride, padding, dilation, groups, has_bias, bias, weight, rnd_weight, rnd_bias) ==
    IF ~(Len(in_dim) >= 2) THEN Raised(self, "Exception")
    ELSE IF ~(Len(kernel_size) = Len(in_dim) - 1) THEN Raised(self, "Exception")
    ELSE IF ~(Len(stride) = Len(in_dim) - 1) THEN Raised(self, "Exception")
    ELSE IF ~(Len(padding) = 2 * Len(kernel_size)) THEN Raised(self, "Exception")
    ELSE IF ~(Len(dilation) = Len(in_dim) - 1) THEN Raised(self, "Exception")
    ELSE
    LET in_channels == in_dim[1]
    IN  IF ~(in_channels % groups = 0 /\ out_channels % groups = 0) THEN Raised(self, "Exception")
        ELSE
        LET out_dim == ConvOutDim(in_dim, out_channels, kernel_size, stride,
                                  padding, dilation)
            s1 == LayerNode__init__(self, identifier, in_dim, out_dim)
            s2 == SetAttrs(s1, [in_channels |-> in_channels,
                                out_channels |-> out_channels,
                                kernel_size |-> kernel_size,
                                stride |-> stride,
                                padding |-> padding,
                                dilation |-> dilation,
                                groups |-> groups,
                                has_bias |-> has_bias])
            weight_size == ConvWeightSize(in_channels, out_channels, kernel_size, groups)
            w == IF weight = None THEN rnd_weight ELSE weight[1]
        IN  IF ~(w.shape = weight_size) THEN Raised(s2, "Exception")
            ELSE IF has_bias /\ bias # None /\ ~(bias[1].shape = <<out_channels>>)
                 THEN Raised(s2, "Exception")
            ELSE LET b == IF has_bias
                          THEN (IF bias = None THEN Some(rnd_bias) ELSE bias)
                          ELSE None
                 IN  Returned(SetAttrs(s2, [bias |-> b, weight |-> Some(w)]))

\* lines 539-554: the tiling of the blocks of toeplitz_list, as doubly_indices
\* says, into an array of blocks of b_h rows and b_w columns; toeplitz_list[k + 1]
\* is the block of index k of the code, the block of index 0 the zero block
TileBlocks(toeplitz_list, doubly_indices, b_h, b_w) ==
    IF \E a \in 1..doubly_indices.nr : \E b \in 1..doubly_indices.nc :
           ~Broadcastable(toeplitz_list[doubly_indices.d[a][b] + 1].nr,
                          toeplitz_list[doubly_indices.d[a][b] + 1].nc, b_h, b_w)
    THEN [ok |-> FALSE, m |-> ZerosArr(0, 0)]
    ELSE [ok |-> TRUE,
          m |-> Arr2(b_h * doubly_indices.nr, b_w * doubly_indices.nc,
                     [a \in 1..(b_h * doubly_indices.nr) |->
                        [b \in 1..(b_w * doubly_indices.nc) |->
                            LET t == toeplitz_list[
                                         doubly_indices.d[((a - 1) \div b_h) + 1]
                                                         [((b - 1) \div b_w) + 1] + 1]
                            IN  t.d[IF t.nr = 1 THEN 1 ELSE ((a - 1) % b_h) + 1]
                                   [IF t.nc = 1 THEN 1 ELSE ((b - 1) % b_w) + 1]]])]

\* lines 517-537 for lengths that numpy accepts
ToeplitzBlocks(filters, F_row_num, F_col_num, pad_w, n_zeros, b_h, b_w, s, p) ==
    TileBlocks(
        Array1([k \in 1..(F_row_num + 1) |->
            IF k = 1 THEN ZerosArr(b_h, b_w)
            ELSE LET r == [b \in 1..(F_col_num + pad_w) |->
                              IF b <= F_col_num THEN filters[k - 1][b] ELSE 0]
                     c == [z \in 1..(n_zeros + 1) |-> IF z = 1 THEN r[1] ELSE 0]
                 IN  StrideTrim(toeplitz(c, r), s, p)]),
        LET ri == [a \in 1..(F_row_num + n_zeros) |-> IF a <= F_row_num THEN a ELSE 0]
            ci == [z \in 1..(n_zeros + 1) |-> IF z = 1 THEN ri[1] ELSE 0]
        IN  StrideTrim(toeplitz(ci, ri), s, p),
        b_h, b_w)

\* conv_filter_as_matrix: [ok, m]; ok = FALSE stands for the ValueError numpy
\* raises on a negative length or on shapes that do not broadcast
conv_filter_as_matrix(filters, input_shape, stride, padding) ==
    LET I_row_num == input_shape[3]
        I_col_num == input_shape[4]
        F_row_num == Len(filters)
        F_col_num == Len(filters[1])
        pad_w == I_col_num - F_col_num + 2 * padding[1]
        b_h == TruncDiv(I_row_num - F_row_num + 2 * padding[2] + stride[1], stride[1])
        n_zeros == I_row_num - F_row_num + 2 * padding[1]
    IN  IF pad_w < 0 \/ b_h < 0 \/ n_zeros < 0 THEN [ok |-> FALSE, m |-> ZerosArr(0, 0)]
        ELSE ToeplitzBlocks(filters, F_row_num, F_col_num, pad_w, n_zeros, b_h,
                            I_col_num, stride[1], padding[2])

\* lines 491-501: the channels of a filter interlaced, column by column
Interlace(per, n_f, n_ch) ==
    IF \E f \in 1..n_f : \E ch \in 1..n_ch : ~per[f][ch].ok
    THEN [ok |-> FALSE, m |-> <<>>]
    ELSE IF per[1][1].m.nr = 0 THEN [ok |-> FALSE, m |-> <<>>]
    ELSE [ok |-> TRUE,
          m |-> Array1([f \in 1..n_f |->
                    Arr2(per[f][1].m.nr, per[f][1].m.nc * n_ch,
                         [a \in 1..per[f][1].m.nr |->
                            [b \in 1..(per[f][1].m.nc * n_ch) |->
                                per[f][((b - 1) % n_ch) + 1].m.d[a][((b - 1) \div n_ch) + 1]]])])]

\* get_weights_as_fc_matrices: [ok, m], m the sequence of the per-filter 2-D
\* arrays; ok = FALSE is an exception
get_weights_as_fc_matrices(self) ==
    Interlace(Array2([f \in 1..self.weight[1].shape[1] |->
                         [ch \in 1..self.weight[1].shape[2] |->
                             conv_filter_as_matrix(
                                 Filter2D(self.weight[1], f, ch),
                                 <<1, self.in_dim[1], self.in_dim[2], self.in_dim[3]>>,
                                 self.stride, self.padding)]]),
              self.weight[1].shape[1], self.weight[1].shape[2])

(***************************************************************************)
(* The other layers of nodes.py.  Every update_input calls the constructor *)
(* of its class on the object itself, with the arguments the source        *)
(* passes; an argument the source leaves out takes the default of the      *)
(* signature.                                                              *)
(***************************************************************************)
ReLUNode__init__(self, identifier, in_dim) ==
    IF ~(Len(in_dim) >= 1) THEN Raised(self, "Exception")
    ELSE Returned(LayerNode__init__(self, identifier, in_dim, in_dim))

ReLUNode_update_input(self, in_dim) == ReLUNode__init__(self, self.identifier, in_dim)

\* the default of alpha in the signatures of ELUNode and CELUNode: 1.0
DefaultAlpha == One

ELUNode__init__(self, identifier, in_dim, alpha) ==
    IF ~(Len(in_dim) >= 1) THEN Raised(self, "Exception")
    ELSE LET a == IF alpha = None THEN DefaultAlpha ELSE alpha[1]
         IN  Returned(LayerNode__init__(SetAttrs(self, [alpha |-> a]),
                                        identifier, in_dim, in_dim))

ELUNode_update_input(self, in_dim) ==
    ELUNode__init__(self, self.identifier, in_dim, Some(DefaultAlpha))

CELUNode__init__(self, identifier, in_dim, alpha) ==
    IF ~(Len(in_dim) >= 1) THEN Raised(self, "Exception")
    ELSE LET a == IF alpha = None THEN DefaultAlpha ELSE alpha[1]
         IN  Returned(LayerNode__init__(SetAttrs(self, [alpha |-> a]),
                                        identifier, in_dim, in_dim))

CELUNode_update_input(self, in_dim) ==
    CELUNode__init__(self, self.identifier, in_dim, Some(DefaultAlpha))

\* the default of negative_slope in the signature of LeakyReLUNode: 1e-2
DefaultNegativeSlope == <<1, 100>>

LeakyReLUNode__init__(self, identifier, in_dim, negative_slope) ==
    IF ~(Len(in_dim) >= 1) THEN Raised(self, "Exception")
    ELSE LET a == IF negative_slope = None THEN DefaultNegativeSlope
                  ELSE negative_slope[1]
         IN  Returned(LayerNode__init__(SetAttrs(self, [negative_slope |-> a]),
                                        identifier, in_dim, in_dim))

LeakyReLUNode_update_input(self, in_dim) ==
    LeakyReLUNode__init__(self, self.identifier, in_dim, Some(DefaultNegativeSlope))

SigmoidNode__init__(self, identifier, in_dim) ==
    IF ~(Len(in_dim) >= 1) THEN Raised(self, "Exception")
    ELSE Returned(LayerNode__init__(self, identifier, in_dim, in_dim))

SigmoidNode_update_input(self, in_dim) ==
    SigmoidNode__init__(self, self.identifier, in_dim)

TanhNode__init__(self, identifier, in_dim) ==
    IF ~(Len(in_dim) >= 1) THEN Raised(self, "Exception")
    ELSE Returned(LayerNode__init__(self, identifier, in_dim, in_dim))

TanhNode_update_input(self, in_dim) == TanhNode__init__(self, self.identifier, in_dim)

\* weight and bias are optional: for None the constructor draws a random
\* tensor of the right shape, whose elements the caller gives as rnd
FullyConnectedNode__init__(self, identifier, in_dim, out_features, weight, bias, has_bias, rnd) ==
    IF ~(Len(in_dim) >= 1) THEN Raised(self, "Exception")
    ELSE
    LET out_dim == [a \in 1..Len(in_dim) |->
                        IF a = Len(in_dim) THEN out_features ELSE in_dim[a]]
        s1 == LayerNode__init__(self, identifier, in_dim, out_dim)
        in_features == in_dim[Len(in_dim)]
        s2 == SetAttrs(s1, [in_features |-> in_features, out_features |-> out_features])
        w == IF weight = None THEN Full(<<out_features, in_features>>, rnd)
             ELSE weight[1]
    IN  IF ~(w.shape[1] = out_features /\ w.shape[2] = in_features)
        THEN Raised(s2, "Exception")
        ELSE IF has_bias /\ bias # None /\ ~(bias[1].shape = <<out_features>>)
        THEN Raised(s2, "Exception")
        ELSE LET b == IF has_bias
                      THEN (IF bias = None THEN Some(Full(<<out_features>>, rnd)) ELSE bias)
                      ELSE None
             IN  Returned(SetAttrs(s2, [weight |-> Some(w), has_bias |-> has_bias,
                                        bias |-> b]))

\* update_input with self.in_features in the place of self.out_features
FullyConnectedNode_update_input_in_features(self, in_dim, rnd) ==
    FullyConnectedNode__init__(self, self.identifier, in_dim, self.in_features,
                               self.weight, self.bias, self.has_bias, rnd)

FullyConnectedNode_update_input(self, in_dim, rnd) ==
    FullyConnectedNode__init__(self, self.identifier, in_dim, self.out_features,
                               self.weight, self.bias, self.has_bias, rnd)

BatchNormNode__init__(self, identifier, in_dim, weight, bias, running_mean, running_var, eps, momentum, affine, track_running_stats) ==
    IF ~(Len(in_dim) >= 1) THEN Raised(self, "Exception")
    ELSE
    LET s1 == LayerNode__init__(self, identifier, in_dim, in_dim)
        num_features == in_dim[1]
        s2 == SetAttrs(s1, [num_features |-> num_features])
        rm == IF track_running_stats
              THEN (IF running_mean = None THEN Some(Full(<<num_features>>, 1))
                    ELSE running_mean)
              ELSE None
        rv == IF track_running_stats
              THEN (IF running_var = None THEN Some(Full(<<num_features>>, 0))
                    ELSE running_var)
              ELSE None
        w == IF weight = None THEN Full(<<num_features>>, 1) ELSE weight[1]
        b == IF bias = None THEN Full(<<num_features>>, 0) ELSE bias[1]
    IN  IF track_running_stats /\ ~(rv[1].shape[1] = num_features)
        THEN Raised(s2, "Exception")
        ELSE IF track_running_stats /\ ~(rm[1].shape[1] = num_features)
        THEN Raised(s2, "Exception")
        ELSE IF ~(w.shape[1] = num_features) THEN Raised(s2, "Exception")
        ELSE IF ~(b.shape[1] = num_features) THEN Raised(s2, "Exception")
        ELSE Returned(SetAttrs(s2, [weight |-> Some(w), bias |-> Some(b),
                                    running_mean |-> rm, running_var |-> rv,
                                    eps |-> eps, momentum |-> momentum,
                                    affine |-> affine,
                                    track_running_stats |-> track_running_stats]))

BatchNormNode_update_input(self, in_dim) ==
    BatchNormNode__init__(self, self.identifier, in_dim, self.weight, self.bias,
                          self.running_mean, self.running_var, self.eps,
                          self.momentum, self.affine, self.track_running_stats)

ConvNode_update_input(self, in_dim, rnd_weight, rnd_bias) ==
    ConvNode__init__(self, self.identifier, in_dim, self.out_channels,
                     self.kernel_size, self.stride, self.padding, self.dilation,
                     self.groups, self.has_bias, self.bias, self.weight,
                     rnd_weight, rnd_bias)

\* math.ceil(a / b) and math.floor(a / b) for b > 0
MathCeil(a, b) == -((-a) \div b)
MathFloor(a, b) == a \div b

AveragePoolNode__init__(self, identifier, in_dim, kernel_size, stride, padding, ceil_mode, count_include_pad) ==
    IF ~(Len(in_dim) >= 2) THEN Raised(self, "Exception")
    ELSE IF ~(Len(kernel_size) = Len(in_dim) - 1) THEN Raised(self, "Exception")
    ELSE IF ~(Len(stride) = Len(in_dim) - 1) THEN Raised(self, "Exception")
    ELSE IF ~(Len(padding) = 2 * Len(kernel_size)) THEN Raised(self, "Exception")
    ELSE
    LET num(a) == in_dim[a] + padding[a - 1] + padding[a + Len(in_dim) - 2]
                  - kernel_size[a - 1]
        out_dim == [a \in 1..Len(in_dim) |->
                        IF a = 1 THEN in_dim[1]
                        ELSE IF ceil_mode THEN MathCeil(num(a), stride[a - 1]) + 1
                        ELSE MathFloor(num(a), stride[a - 1]) + 1]
        s1 == LayerNode__init__(self, identifier, in_dim, out_dim)
    IN  Returned(SetAttrs(s1, [kernel_size |-> kernel_size, stride |-> stride,
                               padding |-> padding, ceil_mode |-> ceil_mode,
                               count_include_pad |-> count_include_pad]))

AveragePoolNode_update_input(self, in_dim) ==
    AveragePoolNode__init__(self, self.identifier, in_dim, self.kernel_size,
                            self.stride, self.padding, self.ceil_mode,
                            self.count_include_pad)

MaxPoolNode__init__(self, identifier, in_dim, kernel_size, stride, padding, dilation, ceil_mode, return_indices) ==
    IF ~(Len(in_dim) >= 2) THEN Raised(self, "Exception")
    ELSE IF ~(Len(kernel_size) = Len(in_dim) - 1) THEN Raised(self, "Exception")
    ELSE IF ~(Len(stride) = Len(in_dim) - 1) THEN Raised(self, "Exception")
    ELSE IF ~(Len(padding) = 2 * Len(kernel_size)) THEN Raised(self, "Exception")
    ELSE IF ~(Len(dilation) = Len(in_dim) - 1) THEN Raised(self, "Exception")
    ELSE
    LET num(a) == in_dim[a] + padding[a - 1] + padding[a + Len(in_dim) - 2]
                  - dilation[a - 1] * (kernel_size[a - 1] - 1) - 1
        out_dim == [a \in 1..Len(in_dim) |->
                        IF a = 1 THEN in_dim[1]
                        ELSE IF ceil_mode THEN MathCeil(num(a), stride[a - 1]) + 1
                        ELSE MathFloor(num(a), stride[a - 1]) + 1]
        s1 == LayerNode__init__(self, identifier, in_dim, out_dim)
    IN  Returned(SetAttrs(s1, [kernel_size |-> kernel_size, stride |-> stride,
                               padding |-> padding, ceil_mode |-> ceil_mode,
                               return_indices |-> return_indices,
                               dilation |-> dilation]))

MaxPoolNode_update_input(self, in_dim) ==
    MaxPoolNode__init__(self, self.identifier, in_dim, self.kernel_size,
                        self.stride, self.padding, self.dilation, self.ceil_mode,
                        self.return_indices)

LRNNode__init__(self, identifier, in_dim, size, alpha, beta, k) ==
    IF ~(Len(in_dim) >= 2) THEN Raised(self, "Exception")
    ELSE Returned(SetAttrs(LayerNode__init__(self, identifier, in_dim, in_dim),
                           [size |-> size, alpha |-> alpha, beta |-> beta, k |-> k]))

LRNNode_update_input(self, in_dim) ==
    LRNNode__init__(self, self.identifier, in_dim, self.size, self.alpha,
                    self.beta, self.k)

SoftMaxNode__init__(self, identifier, in_dim, axis) ==
    IF ~(Len(in_dim) >= 1) THEN Raised(self, "Exception")
    ELSE IF ~(-Len(in_dim) <= axis /\ axis <= Len(in_dim) - 1)
    THEN Raised(self, "Exception")
    ELSE Returned(SetAttrs(LayerNode__init__(self, identifier, in_dim, in_dim),
                           [axis |-> axis]))

SoftMaxNode_update_input(self, in_dim) ==
    SoftMaxNode__init__(self, self.identifier, in_dim, self.axis)

\* list.insert(e, x) of Python: a negative index counts from the end and an
\* index out of the list is clamped to its ends
ListInsert(l, e, x) ==
    LET idx == IF e < 0 THEN Max0(Len(l) + e)
               ELSE IF e > Len(l) THEN Len(l) ELSE e
    IN  SubSeq(l, 1, idx) \o <<x>> \o SubSeq(l, idx + 1, Len(l))

RECURSIVE InsertAll(_, _, _)
InsertAll(l, axes, n) ==
    IF n > Len(axes) THEN l ELSE InsertAll(ListInsert(l, axes[n], 1), axes, n + 1)

SeqToSet(q) == {q[a] : a \in 1..Len(q)}

UnsqueezeNode__init__(self, identifier, in_dim, axes) ==
    IF ~(Len(in_dim) >= 1) THEN Raised(self, "Exception")
    ELSE IF ~(Len(axes) = Cardinality(SeqToSet(axes))) THEN Raised(self, "Exception")
    ELSE IF ~(Len(axes) > 0) THEN Raised(self, "Exception")
    ELSE IF \E a \in 1..Len(axes) :
                \/ axes[a] < -(Len(in_dim) + Len(axes))
                \/ axes[a] > Len(in_dim) + Len(axes) - 1
    THEN Raised(self, "Exception")
    ELSE LET out_dim == InsertAll(in_dim, axes, 1)
         IN  Returned(SetAttrs(LayerNode__init__(self, identifier, in_dim, out_dim),
                               [axes |-> axes]))

UnsqueezeNode_update_input(self, in_dim) ==
    UnsqueezeNode__init__(self, self.identifier, in_dim, self.axes)

\* np.reshape of an array of `total` elements: [ok, shape]
NpReshape(total, shape) ==
    LET unknown == {a \in 1..Len(shape) : shape[a] = -1}
        known == IProd([a \in 1..Len(shape) |-> IF shape[a] = -1 THEN 1 ELSE shape[a]],
                       Len(shape))
    IN  IF \E a \in 1..Len(shape) : shape[a] < -1 THEN [ok |-> FALSE, shape |-> <<>>]
        ELSE IF Cardinality(unknown) > 1 THEN [ok |-> FALSE, shape |-> <<>>]
        ELSE IF unknown = {}
        THEN [ok |-> known = total, shape |-> shape]
        ELSE IF known = 0 \/ total % known # 0 THEN [ok |-> FALSE, shape |-> <<>>]
        ELSE [ok |-> TRUE,
              shape |-> [a \in 1..Len(shape) |->
                            IF shape[a] = -1 THEN total \div known ELSE shape[a]]]

ReshapeNode__init__(self, identifier, in_dim, shape, allow_zero) ==
    IF ~(Cardinality({a \in 1..Len(shape) : shape[a] = -1}) <= 1)
    THEN Raised(self, "Exception")
    ELSE IF \E a \in 1..Len(shape) : shape[a] = 0 /\ ~allow_zero /\ a - 1 >= Len(in_dim)
    THEN Raised(self, "Exception")
    ELSE
    LET temp_shape == [a \in 1..Len(shape) |->
                          IF shape[a] = 0 /\ ~allow_zero THEN in_dim[a] ELSE shape[a]]
        res == NpReshape(IProd(in_dim, Len(in_dim)), temp_shape)
    IN  IF ~res.ok THEN Raised(self, "ValueError")
        ELSE Returned(SetAttrs(LayerNode__init__(self, identifier, in_dim, res.shape),
                               [shape |-> shape, allow_zero |-> allow_zero]))

ReshapeNode_update_input(self, in_dim) ==
    ReshapeNode__init__(self, self.identifier, in_dim, self.shape, self.allow_zero)

\* the slice l[0:stop] of Python
SliceTo(l, stop) ==
    LET e == IF stop < 0 THEN Max0(Len(l) + stop)
             ELSE IF stop > Len(l) THEN Len(l) ELSE stop
    IN  SubSeq(l, 1, e)

FlattenNode__init__(self, identifier, in_dim, axis) ==
    IF ~(-Len(in_dim) <= axis /\ axis <= Len(in_dim)) THEN Raised(self, "Exception")
    ELSE
    LET head == SliceTo(in_dim, axis)
        new_shape == IF axis = 0 THEN <<-1>> ELSE <<IProd(head, Len(head)), -1>>
        res == NpReshape(IProd(in_dim, Len(in_dim)), new_shape)
    IN  IF ~res.ok THEN Raised(self, "ValueError")
        ELSE Returned(SetAttrs(LayerNode__init__(self, identifier, in_dim, res.shape),
                               [axis |-> axis]))

FlattenNode_update_input(self, in_dim) ==
    FlattenNode__init__(self, self.identifier, in_dim, self.axis)

DropoutNode__init__(self, identifier, in_dim, p) ==
    LET s1 == LayerNode__init__(self, identifier, in_dim, in_dim)
    IN  IF ~(RLe(Zero, p) /\ RLe(p, One)) THEN Raised(s1, "Exception")
        ELSE Returned(SetAttrs(s1, [p |-> p]))

DropoutNode_update_input(self, in_dim) ==
    DropoutNode__init__(self, self.identifier, in_dim, self.p)

\* np.array(in_dim)[perm]: an index may be negative and may repeat; an index
\* out of [-r, r - 1] is an IndexError
TransposeNode__init__(self, identifier, in_dim, perm) ==
    LET r == Len(in_dim)
        pm == IF perm = None THEN [a \in 1..r |-> r - a] ELSE perm[1]
    IN  IF Len(pm) # r THEN Raised(self, "Exception")
        ELSE
        LET s1 == SetAttrs(self, [perm |-> pm])
        IN  IF \E a \in 1..r : pm[a] < -r \/ pm[a] > r - 1
            THEN Raised(s1, "IndexError")
            ELSE LET out_dim == [a \in 1..r |->
                                    in_dim[(IF pm[a] < 0 THEN r + pm[a] ELSE pm[a]) + 1]]
                 IN  Returned(LayerNode__init__(s1, identifier, in_dim, out_dim))

TransposeNode_update_input(self, in_dim) ==
    TransposeNode__init__(self, self.identifier, in_dim, Some(self.perm))

\* t[k] of a tuple for k >= 0: an IndexError when k is not an index of t
HasIndex(t, k) == k + 1 <= Len(t)

ConcatNode__init__(self, identifier, in_dim, in_dim_second, axis) ==
    IF axis < -Len(in_dim) \/ axis > Len(in_dim) - 1 THEN Raised(self, "Exception")
    ELSE
    LET jolly_dim == IF axis < 0 THEN Len(in_dim) + axis ELSE axis
        \* the first index at which the loop of the checks ends, if any
        stops == {a \in 0..(Len(in_dim) - 1) :
                     a # jolly_dim /\ (~HasIndex(in_dim_second, a)
                                       \/ in_dim[a + 1] # in_dim_second[a + 1])}
        first == CHOOSE a \in stops : \A b \in stops : a <= b
    IN  IF stops # {}
        THEN Raised(self, IF HasIndex(in_dim_second, first) THEN "Exception"
                          ELSE "IndexError")
        ELSE
        LET s1 == SetAttrs(self, [axis |-> axis, in_dim_second |-> in_dim_second])
        IN  IF ~HasIndex(in_dim_second, jolly_dim) THEN Raised(s1, "IndexError")
            ELSE LET out_dim == [a \in 1..Len(in_dim) |->
                                    IF a = jolly_dim + 1
                                    THEN in_dim[a] + in_dim_second[a]
                                    ELSE in_dim[a]]
                 IN  Returned(LayerNode__init__(s1, identifier, in_dim, out_dim))

ConcatNode_update_input(self, in_dim) ==
    ConcatNode__init__(self, self.identifier, in_dim, self.in_dim_second, self.axis)

SumNode__init__(self, identifier, in_dim, in_dim_second) ==
    LET stops == {a \in 0..(Len(in_dim) - 1) :
                     ~HasIndex(in_dim_second, a) \/ in_dim[a + 1] # in_dim_second[a + 1]}
        first == CHOOSE a \in stops : \A b \in stops : a <= b
    IN  IF stops # {}
        THEN Raised(self, IF HasIndex(in_dim_second, first) THEN "Exception"
                          ELSE "IndexError")
        ELSE Returned(LayerNode__init__(SetAttrs(self, [in_dim_second |-> in_dim_second]),
                                        identifier, in_dim, in_dim))

SumNode_update_input(self, in_dim) ==
    SumNode__init__(self, self.identifier, in_dim, self.in_dim_second)


(***************************************************************************)
(* The bound classes and the helpers of pynever.strategies.bp that         *)
(* bounds_manager.py imports (bounds.py, linearfunctions.py, utils).       *)
(***************************************************************************)
LinearFunctions(matrix, offset) == [matrix |-> matrix, offset |-> offset]
SymbolicLinearBounds(lower, upper) == [lower |-> lower, upper |-> upper]
HyperRectangleBounds(lower, upper) == [lower |-> lower, upper |-> upper]

get_positive_part(M) ==
    Array2([a \in 1..NRows(M) |-> [b \in 1..NCols(M) |-> RMax(M[a][b], Zero)]])
get_negative_part(M) ==
    Array2([a \in 1..NRows(M) |-> [b \in 1..NCols(M) |-> RMin(M[a][b], Zero)]])

compute_min_values(f, input_bounds) ==
    VecAdd(VecAdd(MatVec(get_positive_part(f.matrix), input_bounds.lower),
                  MatVec(get_negative_part(f.matrix), input_bounds.upper)),
           f.offset)

compute_max_values(f, input_bounds) ==
    VecAdd(VecAdd(MatVec(get_positive_part(f.matrix), input_bounds.upper),
                  MatVec(get_negative_part(f.matrix), input_bounds.lower)),
           f.offset)

to_hyper_rectangle_bounds(bounds, input_bounds) ==
    HyperRectangleBounds(compute_min_values(bounds.lower, input_bounds),
                         compute_max_values(bounds.upper, input_bounds))

\* <<lower_l, lower_u, upper_l, upper_u>>
get_all_bounds(bounds, input_bounds) ==
    <<compute_min_values(bounds.lower, input_bounds),
      compute_max_values(bounds.lower, input_bounds),
      compute_min_values(bounds.upper, input_bounds),
      compute_max_values(bounds.upper, input_bounds)>>

\* <<lower_matrix, lower_offset, upper_matrix, upper_offset>>
compute_lin_lower_and_upper(weights_minus, weights_plus, bias, lower_matrix, upper_matrix, lower_offset, upper_offset) ==
    <<MatAdd(MatMul(weights_plus, lower_matrix), MatMul(weights_minus, upper_matrix)),
      VecAdd(VecAdd(MatVec(weights_plus, lower_offset),
                    MatVec(weights_minus, upper_offset)), bias),
      MatAdd(MatMul(weights_plus, upper_matrix), MatMul(weights_minus, lower_matrix)),
      VecAdd(VecAdd(MatVec(weights_plus, upper_offset),
                    MatVec(weights_minus, lower_offset)), bias)>>

(***************************************************************************)
(* bounds_manager.py.                                                      *)
(***************************************************************************)
\* get_lin_lower_bound_coefficients without its first test
get_lin_lower_bound_coefficients_no_nonneg(lower, upper) ==
    IF RLe(upper, Zero) THEN <<Zero, Zero>>
    ELSE <<RDiv(upper, RSub(upper, lower)), Zero>>

get_lin_lower_bound_coefficients(lower, upper) ==
    IF RLe(Zero, lower) THEN <<One, Zero>>
    ELSE IF RLe(upper, Zero) THEN <<Zero, Zero>>
    ELSE LET mult == RDiv(upper, RSub(upper, lower))
         IN  <<mult, Zero>>

get_lin_upper_bound_coefficients_no_nonpos(lower, upper) ==
    IF RLe(Zero, lower) THEN <<One, Zero>>
    ELSE LET mult == RDiv(upper, RSub(upper, lower))
             add == RMul(RNeg(mult), lower)
         IN  <<mult, add>>

get_lin_upper_bound_coefficients(lower, upper) ==
    IF RLe(Zero, lower) THEN <<One, Zero>>
    ELSE IF RLe(upper, Zero) THEN <<Zero, Zero>>
    ELSE LET mult == RDiv(upper, RSub(upper, lower))
             add == RMul(RNeg(mult), lower)
         IN  <<mult, add>>

\* [ks, bs]
get_array_lin_lower_bound_coefficients(lower, upper) ==
    LET kb == Array1([a \in 1..Len(lower) |->
                         get_lin_lower_bound_coefficients(lower[a], upper[a])])
    IN  [ks |-> Array1([a \in 1..Len(lower) |-> kb[a][1]]),
         bs |-> Array1([a \in 1..Len(lower) |-> kb[a][2]])]

get_array_lin_upper_bound_coefficients(lower, upper) ==
    LET kb == Array1([a \in 1..Len(lower) |->
                         get_lin_upper_bound_coefficients(lower[a], upper[a])])
    IN  [ks |-> Array1([a \in 1..Len(lower) |-> kb[a][1]]),
         bs |-> Array1([a \in 1..Len(lower) |-> kb[a][2]])]

get_transformed_matrix(matrix, k) ==
    Array2([a \in 1..NRows(matrix) |->
               [b \in 1..NCols(matrix) |-> RMul(matrix[a][b], k[a])]])

get_transformed_offset(offset, k, b) ==
    Array1([a \in 1..Len(offset) |-> RAdd(RMul(offset[a], k[a]), b[a])])

compute_symb_lin_bounds_equations(inputs, lower_l, lower_u, upper_l, upper_u) ==
    LET lo == get_array_lin_lower_bound_coefficients(lower_l, lower_u)
        up == get_array_lin_upper_bound_coefficients(upper_l, upper_u)
        lower_matrix == get_transformed_matrix(inputs.lower.matrix, lo.ks)
        upper_matrix == get_transformed_matrix(inputs.upper.matrix, up.ks)
        lower_offset == get_transformed_offset(inputs.lower.offset, lo.ks, lo.bs)
        upper_offset == get_transformed_offset(inputs.upper.offset, up.ks, up.bs)
    IN  <<LinearFunctions(lower_matrix, lower_offset),
          LinearFunctions(upper_matrix, upper_offset)>>

compute_relu_output_bounds(inputs, input_hyper_rect_) ==
    LET all == get_all_bounds(inputs, input_hyper_rect_)
        eq == compute_symb_lin_bounds_equations(inputs, all[1], all[2], all[3], all[4])
    IN  SymbolicLinearBounds(eq[1], eq[2])

\* weights.dot(m): numpy raises a ValueError unless the columns of the weights
\* are as many as the rows of m
DotDefined(n_cols, inputs) == n_cols = NRows(inputs.lower.matrix)

\* compute_dense_output_bounds with weights in the place of weights_plus
compute_dense_output_bounds_unsplit(layer, inputs) ==
    LET weights == ToRatMatrix(Rows(layer.ref_node.weight[1]))
        weights_minus == get_negative_part(weights)
        bias == ToRatVector(layer.ref_node.bias[1].d)
        r == compute_lin_lower_and_upper(weights_minus, weights, bias,
                                         inputs.lower.matrix, inputs.upper.matrix,
                                         inputs.lower.offset, inputs.upper.offset)
    IN  SymbolicLinearBounds(LinearFunctions(r[1], r[2]), LinearFunctions(r[3], r[4]))

compute_dense_output_bounds(layer, inputs) ==
    LET weights == ToRatMatrix(Rows(layer.ref_node.weight[1]))
        weights_plus == get_positive_part(weights)
        weights_minus == get_negative_part(weights)
        bias == ToRatVector(layer.ref_node.bias[1].d)
        r == compute_lin_lower_and_upper(weights_minus, weights_plus, bias,
                                         inputs.lower.matrix, inputs.upper.matrix,
                                         inputs.lower.offset, inputs.upper.offset)
    IN  SymbolicLinearBounds(LinearFunctions(r[1], r[2]), LinearFunctions(r[3], r[4]))

\* lines 148-150, 156-158: one product per filter, (f, rows x columns, N)
ConvDotMatrices(weights_plus, weights_minus, first, second) ==
    Array1([f \in 1..Len(weights_plus) |->
               MatAdd(MatMul(weights_plus[f], first), MatMul(weights_minus[f], second))])

\* lines 164-178: one offset vector per filter, with bias[i] added to each entry
ConvDotOffsets(weights_plus, weights_minus, first, second, bias) ==
    Array1([f \in 1..Len(weights_plus) |->
               LET v == VecAdd(MatVec(weights_plus[f], first),
                               MatVec(weights_minus[f], second))
               IN  IF bias # None
                   THEN Array1([a \in 1..Len(v) |-> RAdd(v[a], R(bias[1].d[f]))])
                   ELSE v])

\* the reshape of lines 154 and 162 without the transpose before it: the rows
\* of one filter come together
TransposeReshape_no_transpose(stack) ==
    Array1([a \in 1..(Len(stack) * Len(stack[1])) |->
               stack[((a - 1) \div Len(stack[1])) + 1][((a - 1) % Len(stack[1])) + 1]])

\* lines 151-154: transpose(1, 0, 2) and reshape(-1, N) of a stack of f arrays
\* of n rows each (for the offsets: transpose() and reshape(-1)); the f rows
\* of one position come together
TransposeReshape(stack) ==
    Array1([a \in 1..(Len(stack) * Len(stack[1])) |->
               stack[((a - 1) % Len(stack)) + 1][((a - 1) \div Len(stack)) + 1]])

\* lines 145-180 for the stacked matrices weights_plus, weights_minus
ConvSignSplit(weights_plus, weights_minus, bias, input_lower_eq, input_upper_eq) ==
    SymbolicLinearBounds(
        LinearFunctions(
            TransposeReshape(ConvDotMatrices(weights_plus, weights_minus,
                                             input_lower_eq.matrix, input_upper_eq.matrix)),
            TransposeReshape(ConvDotOffsets(weights_plus, weights_minus,
                                            input_lower_eq.offset, input_upper_eq.offset,
                                            bias))),
        LinearFunctions(
            TransposeReshape(ConvDotMatrices(weights_plus, weights_minus,
                                             input_upper_eq.matrix, input_lower_eq.matrix)),
            TransposeReshape(ConvDotOffsets(weights_plus, weights_minus,
                                            input_upper_eq.offset, input_lower_eq.offset,
                                            bias))))

\* lines 142-146
ConvWeights(weights, bias, bounds) ==
    ConvSignSplit(Array1([f \in 1..Len(weights) |-> get_positive_part(weights[f])]),
                  Array1([f \in 1..Len(weights) |-> get_negative_part(weights[f])]),
                  bias, bounds.lower, bounds.upper)

ConvPropagate(fc, bias, bounds) ==
    IF ~fc.ok THEN [ok |-> FALSE, v |-> Unbound]
    ELSE IF ~DotDefined(fc.m[1].nc, bounds) THEN [ok |-> FALSE, v |-> Unbound]
    ELSE [ok |-> TRUE,
          v |-> ConvWeights(Array1([f \in 1..Len(fc.m) |-> ToRatMatrix(fc.m[f].d)]),
                            bias, bounds)]

\* [ok, v]: ok = FALSE is an exception of get_weights_as_fc_matrices or of dot
propagate_convolution_bounds(convolutional_node, bounds) ==
    ConvPropagate(get_weights_as_fc_matrices(convolutional_node.ref_node),
                  convolutional_node.ref_node.bias, bounds)

\* a dict of Python: the entries in the order of their insertion
DictSet(d, key, val) ==
    IF \E a \in 1..Len(d) : d[a].key = key
    THEN [a \in 1..Len(d) |-> IF d[a].key = key THEN [key |-> key, val |-> val] ELSE d[a]]
    ELSE Append(d, [key |-> key, val |-> val])

DictKeys(d) == [a \in 1..Len(d) |-> d[a].key]
DictGet(d, key) == d[CHOOSE a \in 1..Len(d) : d[a].key = key].val


(***************************************************************************)
(* The networks and the properties the BoundsManager is constructed with.  *)
(* A layer of the abstract network is [class, identifier, ref_node]; the   *)
(* in_dim of every layer is the out_dim of the layer before it.            *)
(***************************************************************************)
BoxIntervals == {<<-1, 1>>, <<0, 1>>, <<0, 0>>}

InputShapes == {<<2>>, <<1, 2, 2>>}

FCParams ==
    { [w |-> Tensor(<<2, 2>>, <<1, -1, 1, 1>>), b |-> Tensor(<<2>>, <<0, 0>>)],
      [w |-> Tensor(<<1, 2>>, <<1, 1>>), b |-> Tensor(<<1>>, <<0>>)],
      [w |-> Tensor(<<2, 2>>, <<2, 1, 0, 3>>), b |-> Tensor(<<2>>, <<1, -1>>)],
      [w |-> Tensor(<<1, 1>>, <<-2>>), b |-> Tensor(<<1>>, <<1>>)] }

ConvParams ==
    { [out_channels |-> 2, kernel_size |-> <<1, 1>>, groups |-> 1,
       weight |-> Tensor(<<2, 1, 1, 1>>, <<2, -1>>),
       bias |-> Some(Tensor(<<2>>, <<1, 0>>))],
      [out_channels |-> 1, kernel_size |-> <<2, 2>>, groups |-> 1,
       weight |-> Tensor(<<1, 1, 2, 2>>, <<1, 1, 1, 1>>),
       bias |-> None] }

MaxPoolKernels == {<<2, 2>>}

AbsNode(class, identifier, res) ==
    [class |-> class, identifier |-> identifier, ref_node |-> res.self]

Built(class, identifier, results) ==
    {AbsNode(class, identifier, res) : res \in {x \in results : x.ok}}

\* the layers with the given in_dim and identifier
LayersFor(in_dim, identifier) ==
    Built("AbsReLUNode", identifier,
          {ReLUNode__init__(NewObject("ReLUNode"), identifier, in_dim)})
    \cup
    Built("AbsSigmoidNode", identifier,
          {SigmoidNode__init__(NewObject("SigmoidNode"), identifier, in_dim)})
    \cup
    Built("AbsFullyConnectedNode", identifier,
          {FullyConnectedNode__init__(NewObject("FullyConnectedNode"), identifier,
                                      in_dim, q.w.shape[1], Some(q.w), Some(q.b), TRUE, 0)
             : q \in FCParams})
    \cup
    Built("AbsConvNode", identifier,
          {ConvNode__init__(NewObject("ConvNode"), identifier, in_dim, q.out_channels,
                            q.kernel_size, <<1, 1>>, <<0, 0, 0, 0>>, <<1, 1>>, q.groups,
                            q.bias # None, q.bias, Some(q.weight), q.weight, q.weight)
             : q \in ConvParams})
    \cup
    Built("AbsMaxPoolNode", identifier,
          {MaxPoolNode__init__(NewObject("MaxPoolNode"), identifier, in_dim, k, k,
                               <<0, 0, 0, 0>>, <<1, 1>>, FALSE, FALSE)
             : k \in {k \in MaxPoolKernels :
                        Len(in_dim) = 3 /\ \A a \in 1..2 : k[a] <= in_dim[a + 1]}})

\* the identifier of the layer at position n: its own, or for the second
\* layer the one of the first layer again
Identifiers(n) == {ToString(n)} \cup (IF n = 2 THEN {ToString(1)} ELSE {})

RECURSIVE NetworksOfLength(_)
NetworksOfLength(n) ==
    IF n = 1
    THEN {<<l>> : l \in UNION {LayersFor(sh, ToString(1)) : sh \in InputShapes}}
    ELSE UNION {{Append(net, l) :
                    l \in UNION {LayersFor(net[n - 1].ref_node.out_dim, id) :
                                   id \in Identifiers(n)}}
                : net \in {x \in NetworksOfLength(n - 1) :
                             x[n - 1].class \in {"AbsReLUNode", "AbsFullyConnectedNode",
                                                 "AbsConvNode", "AbsMaxPoolNode"}}}

Networks == UNION {NetworksOfLength(n) : n \in 1..MaxLayers}

InputSizeOf(net) == IProd(net[1].ref_node.in_dim, Len(net[1].ref_node.in_dim))

Boxes(n) ==
    {HyperRectangleBounds([a \in 1..n |-> R(iv[1])], [a \in 1..n |-> R(iv[2])])
       : iv \in BoxIntervals}

(***************************************************************************)
(* BoundsManager.__init__ and compute_bounds.                              *)
(***************************************************************************)
BMInit ==
    /\ layers \in Networks
    /\ input_hyper_rect \in Boxes(InputSizeOf(layers))
    /\ numeric_bounds = None
    /\ pc = "init"
    /\ err = "none"
    /\ i = 0
    /\ current_input_bounds = Unbound
    /\ symbolic_dense_output_bounds = Unbound
    /\ symbolic_activation_output_bounds = Unbound
    /\ preactivation_bounds = Unbound
    /\ postactivation_bounds = Unbound
    /\ symbolic_bounds = <<>>
    /\ numeric_preactivation_bounds = <<>>
    /\ numeric_postactivation_bounds = <<>>
    /\ returned = None

\* no BoundsManager, no layer node, no ConvNode under observation
BMIdle ==
    /\ layers = <<>>
    /\ input_hyper_rect = Unbound
    /\ numeric_bounds = None
    /\ pc = "idle"
    /\ err = "none"
    /\ i = 0
    /\ current_input_bounds = Unbound
    /\ symbolic_dense_output_bounds = Unbound
    /\ symbolic_activation_output_bounds = Unbound
    /\ preactivation_bounds = Unbound
    /\ postactivation_bounds = Unbound
    /\ symbolic_bounds = <<>>
    /\ numeric_preactivation_bounds = <<>>
    /\ numeric_postactivation_bounds = <<>>
    /\ returned = None

NodeIdle ==
    /\ node = Unbound
    /\ node0 = Unbound
    /\ node_exc = "none"
    /\ same_in_dim = TRUE
    /\ all_ok = TRUE

ConvIdle ==
    /\ conv_node = Unbound
    /\ conv_input = Unbound
    /\ fc_matrices = Unbound

CoefIdle ==
    /\ corners = Unbound
    /\ envelope = "none"
    /\ ks_bs = Unbound

CtorIdle ==
    /\ request = Unbound
    /\ outcome = Unbound
    /\ updated = Unbound

LaunchIdle ==
    /\ timeout_seconds = 0
    /\ at = "idle"
    /\ setting = 0
    /\ alarm = FALSE
    /\ propagating = "none"
    /\ safe = Unbound
    /\ time_taken = Unbound
    /\ part_string = <<>>
    /\ logger_stream = <<>>
    /\ logger_file = <<>>

\* lines 26-43
compute_bounds_enter ==
    /\ pc = "init"
    /\ LET input_size == Len(input_hyper_rect.lower)
           lower == LinearFunctions(Identity(input_size), Zeros(input_size))
           upper == LinearFunctions(Identity(input_size), Zeros(input_size))
       IN  current_input_bounds' = SymbolicLinearBounds(lower, upper)
    /\ symbolic_bounds' = <<>>
    /\ numeric_preactivation_bounds' = <<>>
    /\ numeric_postactivation_bounds' = <<>>
    /\ i' = 1
    /\ pc' = "loop"
    /\ UNCHANGED <<layers, input_hyper_rect, numeric_bounds, err,
                   symbolic_dense_output_bounds, symbolic_activation_output_bounds,
                   preactivation_bounds, postactivation_bounds, returned>>
    /\ UNCHANGED <<nodevars, convvars, coefvars, ctorvars, launchvars>>

\* an exception leaves compute_bounds
Fail(exc) ==
    /\ pc' = "failed"
    /\ err' = exc
    /\ UNCHANGED <<layers, input_hyper_rect, numeric_bounds, i, current_input_bounds,
                   symbolic_dense_output_bounds, symbolic_activation_output_bounds,
                   preactivation_bounds, postactivation_bounds, symbolic_bounds,
                   numeric_preactivation_bounds, numeric_postactivation_bounds,
                   returned>>
    /\ UNCHANGED <<nodevars, convvars, coefvars, ctorvars, launchvars>>

\* lines 74-79, with the values the branch leaves in the four locals
Record(dense, activation, pre, post) ==
    /\ symbolic_dense_output_bounds' = dense
    /\ symbolic_activation_output_bounds' = activation
    /\ preactivation_bounds' = pre
    /\ postactivation_bounds' = post
    /\ symbolic_bounds' = DictSet(symbolic_bounds, layers[i].identifier,
                                  <<dense, activation>>)
    /\ numeric_preactivation_bounds' =
           DictSet(numeric_preactivation_bounds, layers[i].identifier, pre)
    /\ numeric_postactivation_bounds' =
           DictSet(numeric_postactivation_bounds, layers[i].identifier, post)
    /\ current_input_bounds' = activation
    /\ numeric_bounds' = Some(numeric_postactivation_bounds')
    /\ i' = i + 1
    /\ UNCHANGED <<layers, input_hyper_rect, pc, err, returned>>
    /\ UNCHANGED <<nodevars, convvars, coefvars, ctorvars, launchvars>>

InLoop(class) == pc = "loop" /\ i <= Len(layers) /\ layers[i].class = class

\* the ReLU branch with np.maximum left out of the lower bound at line 49
relu_branch_lower_unclamped ==
    /\ InLoop("AbsReLUNode")
    /\ IF symbolic_dense_output_bounds = Unbound
       THEN Fail("UnboundLocalError")
       ELSE Record(symbolic_dense_output_bounds,
                   compute_relu_output_bounds(symbolic_dense_output_bounds,
                                              input_hyper_rect),
                   preactivation_bounds,
                   HyperRectangleBounds(
                       preactivation_bounds.lower,
                       [a \in 1..Len(preactivation_bounds.upper) |->
                           RMax(preactivation_bounds.upper[a], Zero)]))

relu_branch ==
    /\ InLoop("AbsReLUNode")
    /\ IF symbolic_dense_output_bounds = Unbound
       THEN Fail("UnboundLocalError")
       ELSE Record(symbolic_dense_output_bounds,
                   compute_relu_output_bounds(symbolic_dense_output_bounds,
                                              input_hyper_rect),
                   preactivation_bounds,
                   HyperRectangleBounds(
                       [a \in 1..Len(preactivation_bounds.lower) |->
                           RMax(preactivation_bounds.lower[a], Zero)],
                       [a \in 1..Len(preactivation_bounds.upper) |->
                           RMax(preactivation_bounds.upper[a], Zero)]))

\* the FullyConnected branch with get_lower() read twice at line 57
fully_connected_branch_lower_twice ==
    /\ InLoop("AbsFullyConnectedNode")
    /\ IF ~DotDefined(layers[i].ref_node.weight[1].shape[2], current_input_bounds)
       THEN Fail("ValueError")
       ELSE LET dense == compute_dense_output_bounds(layers[i], current_input_bounds)
                pre == to_hyper_rectangle_bounds(dense, input_hyper_rect)
            IN  Record(dense, dense, pre, HyperRectangleBounds(pre.lower, pre.lower))

fully_connected_branch ==
    /\ InLoop("AbsFullyConnectedNode")
    /\ IF ~DotDefined(layers[i].ref_node.weight[1].shape[2], current_input_bounds)
       THEN Fail("ValueError")
       ELSE LET dense == compute_dense_output_bounds(layers[i], current_input_bounds)
                pre == to_hyper_rectangle_bounds(dense, input_hyper_rect)
            IN  Record(dense, dense, pre, HyperRectangleBounds(pre.lower, pre.upper))

conv_branch ==
    /\ InLoop("AbsConvNode")
    /\ LET res == propagate_convolution_bounds(layers[i], current_input_bounds)
       IN  IF ~res.ok
           THEN Fail("ValueError")
           ELSE LET pre == to_hyper_rectangle_bounds(res.v, input_hyper_rect)
                IN  Record(res.v, res.v, pre, HyperRectangleBounds(pre.lower, pre.upper))

\* the MaxPool branch with `continue` in the place of `pass`
maxpool_branch_continue ==
    /\ InLoop("AbsMaxPoolNode")
    /\ i' = i + 1
    /\ UNCHANGED <<layers, input_hyper_rect, numeric_bounds, pc, err, current_input_bounds,
                   symbolic_dense_output_bounds, symbolic_activation_output_bounds,
                   preactivation_bounds, postactivation_bounds, symbolic_bounds,
                   numeric_preactivation_bounds, numeric_postactivation_bounds,
                   returned>>
    /\ UNCHANGED <<nodevars, convvars, coefvars, ctorvars, launchvars>>

maxpool_branch ==
    /\ InLoop("AbsMaxPoolNode")
    /\ IF symbolic_dense_output_bounds = Unbound
       THEN Fail("UnboundLocalError")
       ELSE Record(symbolic_dense_output_bounds, symbolic_activation_output_bounds,
                   preactivation_bounds, postactivation_bounds)

SupportedClasses ==
    {"AbsReLUNode", "AbsFullyConnectedNode", "AbsConvNode", "AbsMaxPoolNode"}

\* the else branch with `pass` in the place of the raise
unsupported_branch_pass ==
    /\ pc = "loop" /\ i <= Len(layers) /\ layers[i].class \notin SupportedClasses
    /\ IF symbolic_dense_output_bounds = Unbound
       THEN Fail("UnboundLocalError")
       ELSE Record(symbolic_dense_output_bounds, symbolic_activation_output_bounds,
                   preactivation_bounds, postactivation_bounds)

unsupported_branch ==
    /\ pc = "loop" /\ i <= Len(layers) /\ layers[i].class \notin SupportedClasses
    /\ Fail("Exception")

compute_bounds_return ==
    /\ pc = "loop" /\ i > Len(layers)
    /\ pc' = "done"
    /\ returned' = Some(<<symbolic_bounds, numeric_preactivation_bounds,
                          numeric_postactivation_bounds>>)
    /\ UNCHANGED <<layers, input_hyper_rect, numeric_bounds, err, i,
                   current_input_bounds, symbolic_dense_output_bounds,
                   symbolic_activation_output_bounds, preactivation_bounds,
                   postactivation_bounds, symbolic_bounds,
                   numeric_preactivation_bounds, numeric_postactivation_bounds>>
    /\ UNCHANGED <<nodevars, convvars, coefvars, ctorvars, launchvars>>

Init == BMInit /\ NodeIdle /\ ConvIdle /\ CoefIdle /\ CtorIdle /\ LaunchIdle

Next ==
    \/ compute_bounds_enter
    \/ relu_branch
    \/ fully_connected_branch
    \/ conv_branch
    \/ maxpool_branch
    \/ unsupported_branch
    \/ compute_bounds_return

Spec == Init /\ [][Next]_vars

(***************************************************************************)
(* One layer node of nodes.py and the calls of its update_input            *)
(* (specification NodeSpec).                                               *)
(***************************************************************************)
NodeInDims == {<<2>>, <<3>>, <<1, 2, 2>>, <<2, 2, 2>>}

Constructed(results) == {res.self : res \in {x \in results : x.ok}}

\* the nodes under observation: every class, constructed with a few arguments
NodesOn(in_dim) ==
    Constructed({ReLUNode__init__(NewObject("ReLUNode"), "n", in_dim),
                 SigmoidNode__init__(NewObject("SigmoidNode"), "n", in_dim),
                 TanhNode__init__(NewObject("TanhNode"), "n", in_dim),
                 LRNNode__init__(NewObject("LRNNode"), "n", in_dim, 2,
                                 <<1, 10000>>, <<3, 4>>, One),
                 DropoutNode__init__(NewObject("DropoutNode"), "n", in_dim, <<1, 2>>)})
    \cup Constructed({ELUNode__init__(NewObject("ELUNode"), "n", in_dim, alpha)
                        : alpha \in {None, Some(R(2))}})
    \cup Constructed({CELUNode__init__(NewObject("CELUNode"), "n", in_dim, alpha)
                        : alpha \in {None, Some(R(2))}})
    \cup Constructed({LeakyReLUNode__init__(NewObject("LeakyReLUNode"), "n", in_dim, ns)
                        : ns \in {None, Some(<<1, 5>>)}})
    \cup Constructed({FullyConnectedNode__init__(
                          NewObject("FullyConnectedNode"), "n", in_dim, q.out_features,
                          q.weight, None, q.has_bias, 1)
                        : q \in {[out_features |-> 2, weight |-> None, has_bias |-> TRUE],
                                 [out_features |-> 1, has_bias |-> FALSE,
                                  weight |-> Some(Full(<<1, in_dim[Len(in_dim)]>>, 3))]}})
    \cup Constructed({BatchNormNode__init__(NewObject("BatchNormNode"), "n", in_dim,
                                            None, None, None, None, <<1, 100000>>,
                                            <<1, 10>>, TRUE, trs)
                        : trs \in BOOLEAN})
    \cup Constructed({ConvNode__init__(NewObject("ConvNode"), "n", in_dim, 2, k,
                                       <<1, 1>>, <<0, 0, 0, 0>>, <<1, 1>>, 1, hb, None,
                                       None, Full(<<2, in_dim[1]>> \o k, 1),
                                       Full(<<2>>, 0))
                        : k \in {<<1, 1>>, <<2, 2>>}, hb \in BOOLEAN})
    \cup Constructed({AveragePoolNode__init__(NewObject("AveragePoolNode"), "n", in_dim,
                                              <<2, 2>>, st, <<0, 0, 0, 0>>, cm, FALSE)
                        : st \in {<<1, 1>>, <<2, 2>>}, cm \in BOOLEAN})
    \cup Constructed({MaxPoolNode__init__(NewObject("MaxPoolNode"), "n", in_dim,
                                          <<2, 2>>, st, <<0, 0, 0, 0>>, <<1, 1>>, cm, FALSE)
                        : st \in {<<1, 1>>, <<2, 2>>}, cm \in BOOLEAN})
    \cup Constructed({SoftMaxNode__init__(NewObject("SoftMaxNode"), "n", in_dim, axis)
                        : axis \in {-1, 0}})
    \cup Constructed({UnsqueezeNode__init__(NewObject("UnsqueezeNode"), "n", in_dim, axes)
                        : axes \in {<<0>>, <<-1>>, <<0, 2>>, <<2, 0>>}})
    \cup Constructed({ReshapeNode__init__(NewObject("ReshapeNode"), "n", in_dim, shape, az)
                        : shape \in {<<-1>>, <<2, -1>>, <<0, -1>>}, az \in BOOLEAN})
    \cup Constructed({FlattenNode__init__(NewObject("FlattenNode"), "n", in_dim, axis)
                        : axis \in {0, 1, -1}})
    \cup Constructed({TransposeNode__init__(NewObject("TransposeNode"), "n", in_dim, perm)
                        : perm \in {None, Some(<<0>>), Some(<<2, 0, 1>>)}})
    \cup Constructed({ConcatNode__init__(NewObject("ConcatNode"), "n", in_dim, second, axis)
                        : second \in NodeInDims, axis \in {0, -1}})
    \cup Constructed({SumNode__init__(NewObject("SumNode"), "n", in_dim, second)
                        : second \in NodeInDims})

NodeInit ==
    /\ node \in UNION {NodesOn(in_dim) : in_dim \in NodeInDims}
    /\ node0 = node
    /\ node_exc = "none"
    /\ same_in_dim = TRUE
    /\ all_ok = TRUE

\* update_input(in_dim) has ended with res: the object has the attributes the
\* call left, whether it returned or raised
UpdateInputEnds(res, in_dim) ==
    /\ node' = res.self
    /\ node_exc' = (IF res.ok THEN "ok" ELSE res.exc)
    /\ same_in_dim' = (same_in_dim /\ in_dim = node0.in_dim)
    /\ all_ok' = (all_ok /\ res.ok)
    /\ UNCHANGED <<node0, bmvars, convvars, coefvars, ctorvars, launchvars>>

Call_ReLUNode_update_input ==
    /\ node.class = "ReLUNode"
    /\ \E in_dim \in NodeInDims : UpdateInputEnds(ReLUNode_update_input(node, in_dim), in_dim)

Call_ELUNode_update_input ==
    /\ node.class = "ELUNode"
    /\ \E in_dim \in NodeInDims : UpdateInputEnds(ELUNode_update_input(node, in_dim), in_dim)

Call_CELUNode_update_input ==
    /\ node.class = "CELUNode"
    /\ \E in_dim \in NodeInDims : UpdateInputEnds(CELUNode_update_input(node, in_dim), in_dim)

Call_LeakyReLUNode_update_input ==
    /\ node.class = "LeakyReLUNode"
    /\ \E in_dim \in NodeInDims : UpdateInputEnds(LeakyReLUNode_update_input(node, in_dim), in_dim)

Call_SigmoidNode_update_input ==
    /\ node.class = "SigmoidNode"
    /\ \E in_dim \in NodeInDims : UpdateInputEnds(SigmoidNode_update_input(node, in_dim), in_dim)

Call_TanhNode_update_input ==
    /\ node.class = "TanhNode"
    /\ \E in_dim \in NodeInDims : UpdateInputEnds(TanhNode_update_input(node, in_dim), in_dim)

Call_FullyConnectedNode_update_input ==
    /\ node.class = "FullyConnectedNode"
    /\ \E in_dim \in NodeInDims : UpdateInputEnds(FullyConnectedNode_update_input(node, in_dim, 0), in_dim)

Call_BatchNormNode_update_input ==
    /\ node.class = "BatchNormNode"
    /\ \E in_dim \in NodeInDims : UpdateInputEnds(BatchNormNode_update_input(node, in_dim), in_dim)

Call_ConvNode_update_input ==
    /\ node.class = "ConvNode"
    /\ \E in_dim \in NodeInDims : UpdateInputEnds(ConvNode_update_input(node, in_dim, node.weight[1], node.weight[1]), in_dim)

Call_AveragePoolNode_update_input ==
    /\ node.class = "AveragePoolNode"
    /\ \E in_dim \in NodeInDims : UpdateInputEnds(AveragePoolNode_update_input(node, in_dim), in_dim)

Call_MaxPoolNode_update_input ==
    /\ node.class = "MaxPoolNode"
    /\ \E in_dim \in NodeInDims : UpdateInputEnds(MaxPoolNode_update_input(node, in_dim), in_dim)

Call_LRNNode_update_input ==
    /\ node.class = "LRNNode"
    /\ \E in_dim \in NodeInDims : UpdateInputEnds(LRNNode_update_input(node, in_dim), in_dim)

Call_SoftMaxNode_update_input ==
    /\ node.class = "SoftMaxNode"
    /\ \E in_dim \in NodeInDims : UpdateInputEnds(SoftMaxNode_update_input(node, in_dim), in_dim)

Call_UnsqueezeNode_update_input ==
    /\ node.class = "UnsqueezeNode"
    /\ \E in_dim \in NodeInDims : UpdateInputEnds(UnsqueezeNode_update_input(node, in_dim), in_dim)

Call_ReshapeNode_update_input ==
    /\ node.class = "ReshapeNode"
    /\ \E in_dim \in NodeInDims : UpdateInputEnds(ReshapeNode_update_input(node, in_dim), in_dim)

Call_FlattenNode_update_input ==
    /\ node.class = "FlattenNode"
    /\ \E in_dim \in NodeInDims : UpdateInputEnds(FlattenNode_update_input(node, in_dim), in_dim)

Call_DropoutNode_update_input ==
    /\ node.class = "DropoutNode"
    /\ \E in_dim \in NodeInDims : UpdateInputEnds(DropoutNode_update_input(node, in_dim), in_dim)

Call_TransposeNode_update_input ==
    /\ node.class = "TransposeNode"
    /\ \E in_dim \in NodeInDims : UpdateInputEnds(TransposeNode_update_input(node, in_dim), in_dim)

Call_ConcatNode_update_input ==
    /\ node.class = "ConcatNode"
    /\ \E in_dim \in NodeInDims : UpdateInputEnds(ConcatNode_update_input(node, in_dim), in_dim)

Call_SumNode_update_input ==
    /\ node.class = "SumNode"
    /\ \E in_dim \in NodeInDims : UpdateInputEnds(SumNode_update_input(node, in_dim), in_dim)

NodeNext ==
    \/ Call_ReLUNode_update_input
    \/ Call_ELUNode_update_input
    \/ Call_CELUNode_update_input
    \/ Call_LeakyReLUNode_update_input
    \/ Call_SigmoidNode_update_input
    \/ Call_TanhNode_update_input
    \/ Call_FullyConnectedNode_update_input
    \/ Call_BatchNormNode_update_input
    \/ Call_ConvNode_update_input
    \/ Call_AveragePoolNode_update_input
    \/ Call_MaxPoolNode_update_input
    \/ Call_LRNNode_update_input
    \/ Call_SoftMaxNode_update_input
    \/ Call_UnsqueezeNode_update_input
    \/ Call_ReshapeNode_update_input
    \/ Call_FlattenNode_update_input
    \/ Call_DropoutNode_update_input
    \/ Call_TransposeNode_update_input
    \/ Call_ConcatNode_update_input
    \/ Call_SumNode_update_input

NodeSpecInit == BMIdle /\ NodeInit /\ ConvIdle /\ CoefIdle /\ CtorIdle /\ LaunchIdle

NodeSpec == NodeSpecInit /\ [][NodeNext]_vars

(***************************************************************************)
(* One ConvNode and a call of get_weights_as_fc_matrices (specification    *)
(* ConvSpec).                                                              *)
(***************************************************************************)
ConvInDims == {<<1, 2, 2>>, <<1, 3, 3>>, <<1, 2, 3>>, <<2, 2, 2>>}

\* a weight tensor with the entries 1, 2, 3, ... in the order of the memory
CountingWeight(shape) == Tensor(shape, [a \in 1..IProd(shape, Len(shape)) |-> a])

\* the ConvNodes on in_dim that construct, without bias, with an output of at
\* least one element
ConvNodesOn(in_dim) ==
    {n \in Constructed({ConvNode__init__(
                            NewObject("ConvNode"), "c", in_dim, out_channels, k, st, pad,
                            dil, groups, FALSE, None,
                            Some(CountingWeight(ConvWeightSize(in_dim[1], out_channels,
                                                               k, groups))),
                            Full(<<1>>, 0), Full(<<1>>, 0))
                          : out_channels \in {1, 2}, k \in {<<1, 1>>, <<2, 2>>},
                            st \in {<<1, 1>>, <<2, 2>>},
                            pad \in {<<0, 0, 0, 0>>, <<1, 1, 1, 1>>},
                            dil \in {<<1, 1>>, <<2, 2>>}, groups \in {1, 2}})
       : \A a \in 1..3 : n.out_dim[a] >= 1}

\* the tensors with a single 1, flattened with the channel index innermost
OneHots(n) == {[a \in 1..n |-> IF a = h THEN One ELSE Zero] : h \in 1..n}

ConvInit ==
    /\ conv_node \in UNION {ConvNodesOn(in_dim) : in_dim \in ConvInDims}
    /\ conv_input \in OneHots(IProd(conv_node.in_dim, 3))
    /\ fc_matrices = Unbound

Call_get_weights_as_fc_matrices ==
    /\ fc_matrices = Unbound
    /\ fc_matrices' = get_weights_as_fc_matrices(conv_node)
    /\ UNCHANGED <<conv_node, conv_input, bmvars, nodevars, coefvars, ctorvars, launchvars>>

ConvNext == Call_get_weights_as_fc_matrices

ConvSpecInit == BMIdle /\ NodeIdle /\ ConvInit /\ CoefIdle /\ CtorIdle /\ LaunchIdle

ConvSpec == ConvSpecInit /\ [][ConvNext]_vars

(***************************************************************************)
(* One call of get_array_lin_lower_bound_coefficients or of                *)
(* get_array_lin_upper_bound_coefficients on the concretized corners of    *)
(* up to MaxNeurons neurons (specification CoefSpec).                      *)
(***************************************************************************)
CornerValues == {-2, -1, 0, 1, 4}

\* the pairs <<l, u>> with l <= u
CornerPairs == CornerValues \X CornerValues

CoefInit ==
    /\ \E n \in 1..MaxNeurons :
          \E q \in [1..n -> CornerPairs] :
             corners = [lower |-> [a \in 1..n |-> R(q[a][1])],
                        upper |-> [a \in 1..n |-> R(q[a][2])]]
    /\ envelope = "none"
    /\ ks_bs = Unbound

Call_get_array_lin_lower_bound_coefficients ==
    /\ envelope = "none"
    /\ envelope' = "lower"
    /\ ks_bs' = get_array_lin_lower_bound_coefficients(corners.lower, corners.upper)
    /\ UNCHANGED <<corners, bmvars, nodevars, convvars, ctorvars, launchvars>>

Call_get_array_lin_upper_bound_coefficients ==
    /\ envelope = "none"
    /\ envelope' = "upper"
    /\ ks_bs' = get_array_lin_upper_bound_coefficients(corners.lower, corners.upper)
    /\ UNCHANGED <<corners, bmvars, nodevars, convvars, ctorvars, launchvars>>

CoefNext ==
    \/ Call_get_array_lin_lower_bound_coefficients
    \/ Call_get_array_lin_upper_bound_coefficients

CoefSpecInit == BMIdle /\ NodeIdle /\ ConvIdle /\ CoefInit /\ CtorIdle /\ LaunchIdle

CoefSpec == CoefSpecInit /\ [][CoefNext]_vars

(***************************************************************************)
(* One constructor call of a layer class of nodes.py with arguments that   *)
(* may be invalid, then one call of update_input on the object if the      *)
(* constructor returned (specification CtorSpec).                          *)
(***************************************************************************)
CtorInDims == {<<>>, <<2>>, <<2, 3>>, <<1, 2, 2>>, <<2, 3, 4>>}

SecondDims == CtorInDims \cup {<<2, 4>>, <<3, 3>>}

Request(class, in_dim, args) == [class |-> class, in_dim |-> in_dim, args |-> args]

\* the constructor calls under observation
Requests ==
    UNION {
        {Request(class, in_dim, <<>>) : class \in {"ReLUNode", "SigmoidNode", "TanhNode"}}
        \cup {Request(class, in_dim, [alpha |-> alpha])
                 : class \in {"ELUNode", "CELUNode"}, alpha \in {None, Some(R(2))}}
        \cup {Request("LeakyReLUNode", in_dim, [negative_slope |-> ns])
                 : ns \in {None, Some(<<1, 5>>)}}
        \cup {Request("DropoutNode", in_dim, [p |-> p]) : p \in {<<1, 2>>, R(2)}}
        \cup {Request("LRNNode", in_dim, [size |-> 2])}
        \cup {Request("ConvNode", in_dim,
                      [kernel_size |-> k, stride |-> st, padding |-> pad,
                       dilation |-> dil, groups |-> groups])
                 : k \in {<<1, 1>>, <<2, 2>>, <<2, 1>>},
                   st \in {<<1, 1>>, <<2, 1>>, <<2, 2>>},
                   pad \in {<<0, 0, 0, 0>>, <<1, 0, 0, 0>>, <<0, 1, 2, 0>>, <<1, 1, 1, 1>>},
                   dil \in {<<1, 1>>, <<2, 1>>}, groups \in {1, 2}}
        \cup {Request("UnsqueezeNode", in_dim, [axes |-> axes])
                 : axes \in {<<>>, <<0>>, <<1>>, <<-1>>, <<0, 2>>, <<2, 0>>, <<1, 1>>,
                             <<5>>, <<-3>>, <<-1, 0>>}}
        \cup {Request("FlattenNode", in_dim, [axis |-> axis]) : axis \in -4..4}
        \cup {Request("TransposeNode", in_dim, [perm |-> perm])
                 : perm \in {None, Some(<<0>>), Some(<<0, 1>>), Some(<<1, 0>>),
                             Some(<<0, 0>>), Some(<<0, 2>>), Some(<<-1, 0>>),
                             Some(<<2, 0, 1>>), Some(<<1, 1, 2>>)}}
        \cup {Request("ConcatNode", in_dim, [in_dim_second |-> second, axis |-> axis])
                 : second \in SecondDims, axis \in -3..2}
        \cup {Request("SumNode", in_dim, [in_dim_second |-> second])
                 : second \in SecondDims}
      : in_dim \in CtorInDims}

\* the constructor call of the request, on a new object
Construct(req) ==
    LET self == NewObject(req.class)
        in_dim == req.in_dim
        a == req.args
        channels == IF in_dim = <<>> THEN 1 ELSE in_dim[1]
    IN  CASE req.class = "ReLUNode" -> ReLUNode__init__(self, "n", in_dim)
          [] req.class = "SigmoidNode" -> SigmoidNode__init__(self, "n", in_dim)
          [] req.class = "TanhNode" -> TanhNode__init__(self, "n", in_dim)
          [] req.class = "ELUNode" -> ELUNode__init__(self, "n", in_dim, a.alpha)
          [] req.class = "CELUNode" -> CELUNode__init__(self, "n", in_dim, a.alpha)
          [] req.class = "LeakyReLUNode" ->
                LeakyReLUNode__init__(self, "n", in_dim, a.negative_slope)
          [] req.class = "DropoutNode" -> DropoutNode__init__(self, "n", in_dim, a.p)
          [] req.class = "LRNNode" ->
                LRNNode__init__(self, "n", in_dim, a.size, <<1, 10000>>, <<3, 4>>, One)
          [] req.class = "ConvNode" ->
                ConvNode__init__(self, "n", in_dim, 2, a.kernel_size, a.stride, a.padding,
                                 a.dilation, a.groups, FALSE, None, None,
                                 Full(ConvWeightSize(channels, 2, a.kernel_size, a.groups),
                                      1),
                                 Full(<<2>>, 0))
          [] req.class = "UnsqueezeNode" -> UnsqueezeNode__init__(self, "n", in_dim, a.axes)
          [] req.class = "FlattenNode" -> FlattenNode__init__(self, "n", in_dim, a.axis)
          [] req.class = "TransposeNode" -> TransposeNode__init__(self, "n", in_dim, a.perm)
          [] req.class = "ConcatNode" ->
                ConcatNode__init__(self, "n", in_dim, a.in_dim_second, a.axis)
          [] req.class = "SumNode" -> SumNode__init__(self, "n", in_dim, a.in_dim_second)

\* self.update_input(in_dim), dispatched on the class of the object
update_input(self, in_dim) ==
    CASE self.class = "ReLUNode" -> ReLUNode_update_input(self, in_dim)
      [] self.class = "SigmoidNode" -> SigmoidNode_update_input(self, in_dim)
      [] self.class = "TanhNode" -> TanhNode_update_input(self, in_dim)
      [] self.class = "ELUNode" -> ELUNode_update_input(self, in_dim)
      [] self.class = "CELUNode" -> CELUNode_update_input(self, in_dim)
      [] self.class = "LeakyReLUNode" -> LeakyReLUNode_update_input(self, in_dim)
      [] self.class = "DropoutNode" -> DropoutNode_update_input(self, in_dim)
      [] self.class = "LRNNode" -> LRNNode_update_input(self, in_dim)
      [] self.class = "ConvNode" ->
            ConvNode_update_input(self, in_dim, self.weight[1], self.weight[1])
      [] self.class = "UnsqueezeNode" -> UnsqueezeNode_update_input(self, in_dim)
      [] self.class = "FlattenNode" -> FlattenNode_update_input(self, in_dim)
      [] self.class = "TransposeNode" -> TransposeNode_update_input(self, in_dim)
      [] self.class = "ConcatNode" -> ConcatNode_update_input(self, in_dim)
      [] self.class = "SumNode" -> SumNode_update_input(self, in_dim)

CtorInit ==
    /\ request \in Requests
    /\ outcome = Unbound
    /\ updated = Unbound

Call__init__ ==
    /\ outcome = Unbound
    /\ outcome' = Construct(request)
    /\ UNCHANGED <<request, updated, bmvars, nodevars, convvars, coefvars, launchvars>>

Call_update_input ==
    /\ outcome # Unbound
    /\ outcome.ok
    /\ updated = Unbound
    /\ \E in_dim \in CtorInDims :
          updated' = [in_dim |-> in_dim, res |-> update_input(outcome.self, in_dim)]
    /\ UNCHANGED <<request, outcome, bmvars, nodevars, convvars, coefvars, launchvars>>

CtorNext ==
    \/ Call__init__
    \/ Call_update_input

CtorSpecInit == BMIdle /\ NodeIdle /\ ConvIdle /\ CoefIdle /\ CtorInit /\ LaunchIdle

CtorSpec == CtorSpecInit /\ [][CtorNext]_vars

(***************************************************************************)
(* One call of exec_instance of exp_launcher.py (specification             *)
(* LauncherSpec).  The call of strategy.verify either returns a Boolean or *)
(* is interrupted by the alarm.  The SIGALRM scheduled by signal.alarm is  *)
(* delivered at any moment while it is scheduled: its handler runs between *)
(* any two statements of the main thread.  part_string is the sequence of  *)
(* its comma-terminated fields, so part_string[:-1], which drops the last  *)
(* comma, is the row of these fields.                                      *)
(***************************************************************************)
pynever_setting == <<"Over-approx.", "Mixed1", "Complete">>

TimeoutSeconds == {0, 1}

VerifyTimes == {0, 1}

\* the text of a Boolean and of a number of seconds in an f-string
FormatBool(b) == IF b THEN "True" ELSE "False"

FormatSeconds(t) == IF t = 0 THEN "0.0" ELSE "1.0"

\* the statements between signal.alarm(seconds) and signal.alarm(0)
TimeLimited == {"verify", "append", "finally"}

LaunchInit ==
    /\ timeout_seconds \in TimeoutSeconds
    /\ at = "for"
    /\ setting = 0
    /\ alarm = FALSE
    /\ propagating = "none"
    /\ safe = Unbound
    /\ time_taken = Unbound
    /\ part_string = <<"inst_name">>
    /\ logger_stream = <<>>
    /\ logger_file = <<>>

\* line 63 to 65: the loop takes the next setting and announces it
for_setting ==
    /\ at = "for"
    /\ setting < Len(pynever_setting)
    /\ setting' = setting + 1
    /\ logger_stream' = Append(logger_stream, pynever_setting[setting + 1])
    /\ at' = "with"
    /\ UNCHANGED <<timeout_seconds, alarm, propagating, safe, time_taken, part_string,
                   logger_file, bmvars, nodevars, convvars, coefvars, ctorvars>>

\* line 63: the list is exhausted
for_exhausted ==
    /\ at = "for"
    /\ setting = Len(pynever_setting)
    /\ at' = "log"
    /\ UNCHANGED <<timeout_seconds, setting, alarm, propagating, safe, time_taken,
                   part_string, logger_stream, logger_file, bmvars, nodevars,
                   convvars, coefvars, ctorvars>>

\* line 68, 42 and 43: signal.alarm(seconds) schedules an alarm if seconds is
\* not 0, and cancels any scheduled alarm if it is 0
time_limit_enter ==
    /\ at = "with"
    /\ alarm' = (timeout_seconds # 0)
    /\ at' = "verify"
    /\ UNCHANGED <<timeout_seconds, setting, propagating, safe, time_taken, part_string,
                   logger_stream, logger_file, bmvars, nodevars, convvars,
                   coefvars, ctorvars>>

\* line 69 to 72: verify returns
verify_returns ==
    /\ at = "verify"
    /\ propagating = "none"
    /\ \E verified \in BOOLEAN : safe' = ~verified
    /\ time_taken' \in VerifyTimes
    /\ at' = "append"
    /\ UNCHANGED <<timeout_seconds, setting, alarm, propagating, part_string,
                   logger_stream, logger_file, bmvars, nodevars, convvars,
                   coefvars, ctorvars>>

\* line 73
append_result ==
    /\ at = "append"
    /\ propagating = "none"
    /\ part_string' = part_string \o <<FormatBool(safe), FormatSeconds(time_taken)>>
    /\ at' = "finally"
    /\ UNCHANGED <<timeout_seconds, setting, alarm, propagating, safe, time_taken,
                   logger_stream, logger_file, bmvars, nodevars, convvars,
                   coefvars, ctorvars>>

\* line 39 and 40: the alarm is delivered and the handler raises
\* TimeoutException in the statement the main thread is at; the with
\* statement then runs the finally clause of time_limit
signal_handler ==
    /\ alarm
    /\ at \in TimeLimited
    /\ propagating = "none"
    /\ alarm' = FALSE
    /\ propagating' = "TimeoutException"
    /\ at' = "finally"
    /\ UNCHANGED <<timeout_seconds, setting, safe, time_taken, part_string,
                   logger_stream, logger_file, bmvars, nodevars, convvars,
                   coefvars, ctorvars>>

\* line 47 and 48: signal.alarm(0) cancels the alarm; the block is left, to
\* the except clause if an exception is propagating, else to the loop
time_limit_exit ==
    /\ at = "finally"
    /\ alarm' = FALSE
    /\ at' = (IF propagating = "none" THEN "for" ELSE "except")
    /\ UNCHANGED <<timeout_seconds, setting, propagating, safe, time_taken, part_string,
                   logger_stream, logger_file, bmvars, nodevars, convvars,
                   coefvars, ctorvars>>

except_TimeoutException_no_break ==
    /\ at = "except"
    /\ propagating = "TimeoutException"
    /\ propagating' = "none"
    /\ part_string' = part_string \o <<"---", "---">>
    /\ at' = "for"
    /\ UNCHANGED <<timeout_seconds, setting, alarm, safe, time_taken,
                   logger_stream, logger_file, bmvars, nodevars, convvars,
                   coefvars, ctorvars>>

\* line 74 to 76: the marker is appended and the loop is left
except_TimeoutException ==
    /\ at = "except"
    /\ propagating = "TimeoutException"
    /\ propagating' = "none"
    /\ part_string' = part_string \o <<"---", "---">>
    /\ at' = "log"
    /\ UNCHANGED <<timeout_seconds, setting, alarm, safe, time_taken,
                   logger_stream, logger_file, bmvars, nodevars, convvars,
                   coefvars, ctorvars>>

\* line 78
log_row ==
    /\ at = "log"
    /\ logger_file' = Append(logger_file, part_string)
    /\ at' = "returned"
    /\ UNCHANGED <<timeout_seconds, setting, alarm, propagating, safe, time_taken,
                   part_string, logger_stream, bmvars, nodevars, convvars,
                   coefvars, ctorvars>>

LaunchNext ==
    \/ for_setting
    \/ for_exhausted
    \/ time_limit_enter
    \/ verify_returns
    \/ append_result
    \/ signal_handler
    \/ time_limit_exit
    \/ except_TimeoutException
    \/ log_row

LauncherSpecInit == BMIdle /\ NodeIdle /\ ConvIdle /\ CoefIdle /\ CtorIdle /\ LaunchInit

LauncherSpec == LauncherSpecInit /\ [][LaunchNext]_vars

(***************************************************************************)
(* What the layers compute (spec.md, sections 2 and 4.1): the value of a   *)
(* layer at an input point, on flat vectors; a (C, H, W) tensor is         *)
(* flattened with the channel index innermost, as the reducer and          *)
(* propagate_convolution_bounds order the equations.                       *)
(***************************************************************************)
ReLUForward(x) == Array1([a \in 1..Len(x) |-> RMax(x[a], Zero)])

\* y = W x + b on the last axis
FullyConnectedForward(n, x) ==
    Array1([a \in 1..((Len(x) \div n.in_features) * n.out_features) |->
               RAdd(RSum([j \in 1..n.in_features |->
                             RMul(R(Rows(n.weight[1])[((a - 1) % n.out_features) + 1][j]),
                                  x[((a - 1) \div n.out_features) * n.in_features + j])],
                         n.in_features),
                    R(n.bias[1].d[((a - 1) % n.out_features) + 1]))])

\* one term of the cross-correlation: tap (cc, ky, kx), 0-based, of filter f at
\* the output position (oy, ox), 0-based; zero on the padding
ConvTerm(n, x, f, oy, ox, cc, ky, kx) ==
    LET y == oy * n.stride[1] + ky * n.dilation[1] - n.padding[1]
        xx == ox * n.stride[2] + kx * n.dilation[2] - n.padding[2]
        c == ((f - 1) \div (n.out_channels \div n.groups)) * n.weight[1].shape[2] + cc
    IN  IF y < 0 \/ y >= n.in_dim[2] \/ xx < 0 \/ xx >= n.in_dim[3] THEN Zero
        ELSE RMul(R(Filter2D(n.weight[1], f, cc + 1)[ky + 1][kx + 1]),
                  x[(y * n.in_dim[3] + xx) * n.in_dim[1] + c + 1])

\* the direct convolution without bias at filter f and output position (oy, ox)
DirectConvAt(n, x, f, oy, ox) ==
    LET KH == n.kernel_size[1]
        KW == n.kernel_size[2]
        taps == n.weight[1].shape[2] * KH * KW
    IN  RSum([t \in 1..taps |->
                 ConvTerm(n, x, f, oy, ox, (t - 1) \div (KH * KW),
                          ((t - 1) % (KH * KW)) \div KW, (t - 1) % KW)], taps)

\* the convolution with its bias; entry (oy * OW + ox) * F + f of the result
ConvForward(n, x) ==
    Array1([a \in 1..(n.out_dim[1] * n.out_dim[2] * n.out_dim[3]) |->
               RAdd(DirectConvAt(n, x, ((a - 1) % n.out_dim[1]) + 1,
                                 ((a - 1) \div n.out_dim[1]) \div n.out_dim[3],
                                 ((a - 1) \div n.out_dim[1]) % n.out_dim[3]),
                    IF n.bias # None THEN R(n.bias[1].d[((a - 1) % n.out_dim[1]) + 1])
                    ELSE Zero)])

Forward(layer, x) ==
    IF layer.class = "AbsReLUNode" THEN ReLUForward(x)
    ELSE IF layer.class = "AbsFullyConnectedNode"
    THEN FullyConnectedForward(layer.ref_node, x)
    ELSE ConvForward(layer.ref_node, x)

\* the value of layer k of the network at the input x; the input itself for k = 0
RECURSIVE LayerOutput(_, _, _)
LayerOutput(net, k, x) ==
    IF k = 0 THEN x ELSE Forward(net[k], LayerOutput(net, k - 1, x))

\* the value before the activation: the input of a ReLU layer, the output of
\* an affine layer
PreActivation(net, k, x) ==
    IF net[k].class = "AbsReLUNode" THEN LayerOutput(net, k - 1, x)
    ELSE LayerOutput(net, k, x)

\* the corners of a box
Corners(box) ==
    {Array1([a \in 1..Len(box.lower) |-> IF a \in S THEN box.upper[a] ELSE box.lower[a]])
       : S \in SUBSET (1..Len(box.lower))}

EvalLinear(f, x) == VecAdd(MatVec(f.matrix, x), f.offset)

VecLe(u, v) == Len(u) = Len(v) /\ \A a \in 1..Len(u) : RLe(u[a], v[a])

Encloses(bounds, v, x) ==
    VecLe(EvalLinear(bounds.lower, x), v) /\ VecLe(v, EvalLinear(bounds.upper, x))

UniqueIdentifiers ==
    \A a, b \in 1..Len(layers) : a # b => layers[a].identifier # layers[b].identifier

ClassesOf(net) == {net[k].class : k \in 1..Len(net)}

\* the exact affine composition of the first k FullyConnected layers
RECURSIVE AffineComposition(_, _, _)
AffineComposition(net, k, n) ==
    IF k = 0 THEN LinearFunctions(Identity(n), Zeros(n))
    ELSE LET prev == AffineComposition(net, k - 1, n)
             W == ToRatMatrix(Rows(net[k].ref_node.weight[1]))
         IN  LinearFunctions(MatMul(W, prev.matrix),
                             VecAdd(MatVec(W, prev.offset),
                                    ToRatVector(net[k].ref_node.bias[1].d)))

\* the interval of output o of y = W x + b over the box, term by term
ConcretizedLower(W, b, box) ==
    Array1([o \in 1..Len(W) |->
               RAdd(RSum([j \in 1..Len(W[o]) |->
                             RAdd(RMul(RMax(R(W[o][j]), Zero), box.lower[j]),
                                  RMul(RMin(R(W[o][j]), Zero), box.upper[j]))],
                         Len(W[o])),
                    R(b[o]))])

ConcretizedUpper(W, b, box) ==
    Array1([o \in 1..Len(W) |->
               RAdd(RSum([j \in 1..Len(W[o]) |->
                             RAdd(RMul(RMax(R(W[o][j]), Zero), box.upper[j]),
                                  RMul(RMin(R(W[o][j]), Zero), box.lower[j]))],
                         Len(W[o])),
                    R(b[o]))])

(***************************************************************************)
(* Properties of compute_bounds (specification Spec).                      *)
(***************************************************************************)

\* C1: soundness.  When compute_bounds has returned for a network of
\* FullyConnected, Conv and ReLU layers with distinct identifiers, at every
\* corner x of the input box and for every layer, the pre-activation symbolic
\* bounds recorded for the layer enclose the value before its activation and
\* the post-activation symbolic bounds enclose its output.
C1_Soundness ==
    (pc = "done" /\ UniqueIdentifiers /\ "AbsMaxPoolNode" \notin ClassesOf(layers))
    => \A k \in 1..Len(layers) : \A x \in Corners(input_hyper_rect) :
          LET recorded == DictGet(returned[1][1], layers[k].identifier)
          IN  /\ Encloses(recorded[1], PreActivation(layers, k, x), x)
              /\ Encloses(recorded[2], LayerOutput(layers, k, x), x)

\* C2: after a successful compute_bounds on a network with distinct layer
\* identifiers, each of the three returned mappings has one entry per layer,
\* its keys are the identifiers of the layers, and numeric_post iterates them
\* in the order of the layers.
C2_ReturnedKeys ==
    (pc = "done" /\ UniqueIdentifiers)
    => /\ \A m \in 1..3 :
             /\ Len(returned[1][m]) = Len(layers)
             /\ SeqToSet(DictKeys(returned[1][m]))
                  = {layers[k].identifier : k \in 1..Len(layers)}
       /\ DictKeys(returned[1][3]) = [k \in 1..Len(layers) |-> layers[k].identifier]

C2_Witness ==
    /\ pc = "done"
    /\ UniqueIdentifiers
    /\ Len(layers) >= 2
    /\ DictKeys(returned[1][3]) = [k \in 1..Len(layers) |-> layers[k].identifier]

\* C3: a step of the walk at a layer that is not FullyConnected, Conv, ReLU or
\* MaxPool ends compute_bounds with the unsupported-layer exception, and no
\* mappings are returned.
C3_UnsupportedLayer ==
    [][(pc = "loop" /\ i <= Len(layers) /\ layers[i].class \notin SupportedClasses)
       => (pc' = "failed" /\ err' = "Exception" /\ returned' = None)]_vars

C3_Witness ==
    /\ pc = "failed"
    /\ err = "Exception"
    /\ layers[i].class = "AbsSigmoidNode"
    /\ returned = None

\* C4: the manager never partially returns: after compute_bounds has failed,
\* its numeric_bounds attribute is what it was before the call (None).
C4_NeverPartiallyReturns == pc = "failed" => numeric_bounds = None

\* C5: affine tightness.  On a network of FullyConnected layers only (distinct
\* identifiers), the symbolic bounds recorded at every layer have L = U, the
\* pre and post bounds are the same, and they are the exact affine composition
\* of the layers up to that layer, from the identity seed.
C5_AffineTightness ==
    (pc \in {"loop", "done", "failed"} /\ UniqueIdentifiers
     /\ ClassesOf(layers) = {"AbsFullyConnectedNode"})
    => \A k \in 1..Len(symbolic_bounds) :
          /\ symbolic_bounds[k].key = layers[k].identifier
          /\ symbolic_bounds[k].val[1].lower = symbolic_bounds[k].val[1].upper
          /\ symbolic_bounds[k].val[2] = symbolic_bounds[k].val[1]
          /\ symbolic_bounds[k].val[1].lower
               = AffineComposition(layers, k, Len(input_hyper_rect.lower))

C5_Witness ==
    /\ pc = "done"
    /\ UniqueIdentifiers
    /\ ClassesOf(layers) = {"AbsFullyConnectedNode"}
    /\ Len(symbolic_bounds) >= 2
    /\ \E k \in 1..Len(layers) : \E w \in SeqToSet(layers[k].ref_node.weight[1].d) : w < 0
    /\ \E k \in 1..Len(layers) : \E w \in SeqToSet(layers[k].ref_node.weight[1].d) : w > 0

\* C6: for a FullyConnected layer processed as the first layer over the box
\* [l0, u0], the recorded numeric_pre and numeric_post bounds are equal and are
\* the sign-split sums of the claim, and the recorded pre-symbolic and
\* post-symbolic bounds are the same bounds.
C6_FirstLayerConcretization ==
    (i >= 2 /\ layers[1].class = "AbsFullyConnectedNode" /\ (i = 2 \/ UniqueIdentifiers))
    => LET id == layers[1].identifier
           W == Rows(layers[1].ref_node.weight[1])
           b == layers[1].ref_node.bias[1].d
           expected == HyperRectangleBounds(ConcretizedLower(W, b, input_hyper_rect),
                                            ConcretizedUpper(W, b, input_hyper_rect))
       IN  /\ DictGet(numeric_preactivation_bounds, id) = expected
           /\ DictGet(numeric_postactivation_bounds, id) = expected
           /\ DictGet(symbolic_bounds, id)[1] = DictGet(symbolic_bounds, id)[2]

\* W = [[2, 1], [0, 3]], b = [1, -1] over [0, 1]^2: [1, 4] and [-1, 2]
C6_Witness ==
    /\ i = 2
    /\ layers[1].class = "AbsFullyConnectedNode"
    /\ layers[1].ref_node.weight[1] = Tensor(<<2, 2>>, <<2, 1, 0, 3>>)
    /\ layers[1].ref_node.bias[1] = Tensor(<<2>>, <<1, -1>>)
    /\ input_hyper_rect = HyperRectangleBounds(<<Zero, Zero>>, <<One, One>>)
    /\ postactivation_bounds = HyperRectangleBounds(<<R(1), R(-1)>>, <<R(4), R(2)>>)

\* C10: after a ReLU layer is processed, for every neuron whose concretized
\* pre-activation lower bound is >= 0 the post-activation symbolic bounds equal
\* the pre-activation symbolic bounds: the same matrix row and the same offset,
\* for the lower and for the upper function.
C10_ReLUNonNegative ==
    (i >= 2 /\ layers[i - 1].class = "AbsReLUNode")
    => \A a \in 1..Len(preactivation_bounds.lower) :
          RLe(Zero, preactivation_bounds.lower[a])
          => LET pre == symbolic_dense_output_bounds
                 post == symbolic_activation_output_bounds
             IN  /\ post.lower.matrix[a] = pre.lower.matrix[a]
                 /\ post.lower.offset[a] = pre.lower.offset[a]
                 /\ post.upper.matrix[a] = pre.upper.matrix[a]
                 /\ post.upper.offset[a] = pre.upper.offset[a]

C10_Witness ==
    /\ i >= 2
    /\ layers[i - 1].class = "AbsReLUNode"
    /\ \E a \in 1..Len(preactivation_bounds.lower) :
          /\ RLt(Zero, preactivation_bounds.lower[a])
          /\ symbolic_activation_output_bounds.lower.matrix[a]
               = symbolic_dense_output_bounds.lower.matrix[a]
          /\ \E c \in 1..Len(symbolic_dense_output_bounds.lower.matrix[a]) :
                symbolic_dense_output_bounds.lower.matrix[a][c] # Zero

\* C11: after a ReLU layer is processed, for every neuron whose concretized
\* pre-activation upper bound is <= 0 (the case of both concretized bounds
\* equal to 0 included) the post-activation symbolic bounds are identically
\* zero: a zero matrix row and a zero offset, for the lower and for the upper
\* function.
C11_ReLUNonPositive ==
    (i >= 2 /\ layers[i - 1].class = "AbsReLUNode")
    => \A a \in 1..Len(preactivation_bounds.upper) :
          RLe(preactivation_bounds.upper[a], Zero)
          => LET post == symbolic_activation_output_bounds
             IN  /\ \A c \in 1..Len(post.lower.matrix[a]) : post.lower.matrix[a][c] = Zero
                 /\ post.lower.offset[a] = Zero
                 /\ \A c \in 1..Len(post.upper.matrix[a]) : post.upper.matrix[a][c] = Zero
                 /\ post.upper.offset[a] = Zero

\* lower_a <= upper_a for every component a
WellFormed(b) == \A a \in 1..Len(b.lower) : RLe(b.lower[a], b.upper[a])

\* C14: every HyperRectBounds recorded in numeric_pre and numeric_post has
\* lower_a <= upper_a for every component a, and after a ReLU layer the
\* recorded post bounds have lower_a >= 0.
C14_WellFormedBounds ==
    /\ \A e \in 1..Len(numeric_preactivation_bounds) :
          /\ Len(numeric_preactivation_bounds[e].val.lower)
               = Len(numeric_preactivation_bounds[e].val.upper)
          /\ WellFormed(numeric_preactivation_bounds[e].val)
    /\ \A e \in 1..Len(numeric_postactivation_bounds) :
          /\ Len(numeric_postactivation_bounds[e].val.lower)
               = Len(numeric_postactivation_bounds[e].val.upper)
          /\ WellFormed(numeric_postactivation_bounds[e].val)
    /\ (i >= 2 /\ layers[i - 1].class = "AbsReLUNode")
       => LET post == DictGet(numeric_postactivation_bounds, layers[i - 1].identifier)
          IN  \A a \in 1..Len(post.lower) : RLe(Zero, post.lower[a])

\* a ReLU layer after an affine layer that is not the first one: a neuron
\* with a negative concretized lower bound and a positive upper bound has
\* post bounds [0, u]
C14_Witness ==
    /\ i >= 4
    /\ layers[i - 1].class = "AbsReLUNode"
    /\ layers[i - 2].class \in {"AbsFullyConnectedNode", "AbsConvNode"}
    /\ \E a \in 1..Len(preactivation_bounds.lower) :
          /\ RLt(preactivation_bounds.lower[a], Zero)
          /\ RLt(Zero, preactivation_bounds.upper[a])
          /\ DictGet(numeric_postactivation_bounds, layers[i - 1].identifier).lower[a] = Zero
          /\ DictGet(numeric_postactivation_bounds, layers[i - 1].identifier).upper[a]
               = preactivation_bounds.upper[a]

\* row (from 0) of the sign-split product of a weight matrix with two
\* affine functions: W+[row] . first + W-[row] . second
SplitRow(W, row, first, second) ==
    MatAdd(MatMul(get_positive_part(<<W[row + 1]>>), first.matrix),
           MatMul(get_negative_part(<<W[row + 1]>>), second.matrix))[1]

SplitOffset(W, row, first, second) ==
    VecAdd(MatVec(get_positive_part(<<W[row + 1]>>), first.offset),
           MatVec(get_negative_part(<<W[row + 1]>>), second.offset))[1]

\* C21: when a Conv layer with F filters and R output positions is processed,
\* the output symbolic bounds have R * F rows, and row r * F + f of the
\* matrices and of the offsets is the sign-split bound of row r of the f-th
\* Toeplitz matrix on the input bounds, with bias[f] added to the offset when
\* the layer has a bias.
C21_ConvOrdering ==
    [][(InLoop("AbsConvNode") /\ pc' = "loop")
       => LET fc == get_weights_as_fc_matrices(layers[i].ref_node).m
              bias == layers[i].ref_node.bias
              F == Len(fc)
              Rn == fc[1].nr
              inp == current_input_bounds
              out == symbolic_dense_output_bounds'
          IN  /\ Len(out.lower.matrix) = Rn * F /\ Len(out.upper.matrix) = Rn * F
              /\ Len(out.lower.offset) = Rn * F /\ Len(out.upper.offset) = Rn * F
              /\ \A r \in 0..(Rn - 1) : \A f \in 0..(F - 1) :
                    LET W == ToRatMatrix(fc[f + 1].d)
                        b == IF bias = None THEN Zero ELSE R(bias[1].d[f + 1])
                        row == r * F + f + 1
                    IN  /\ out.lower.matrix[row] = SplitRow(W, r, inp.lower, inp.upper)
                        /\ out.upper.matrix[row] = SplitRow(W, r, inp.upper, inp.lower)
                        /\ out.lower.offset[row]
                             = RAdd(SplitOffset(W, r, inp.lower, inp.upper), b)
                        /\ out.upper.offset[row]
                             = RAdd(SplitOffset(W, r, inp.upper, inp.lower), b)]_vars

\* a Conv layer with 2 filters and a bias was processed on 4 output
\* positions: 8 rows, the first two (the two filters at position 0) differ
C21_Witness ==
    /\ i >= 2
    /\ pc = "loop"
    /\ layers[i - 1].class = "AbsConvNode"
    /\ layers[i - 1].ref_node.out_dim = <<2, 2, 2>>
    /\ layers[i - 1].ref_node.has_bias
    /\ Len(symbolic_dense_output_bounds.lower.matrix) = 8
    /\ symbolic_dense_output_bounds.lower.matrix[1]
         # symbolic_dense_output_bounds.lower.matrix[2]
    /\ symbolic_dense_output_bounds.lower.offset[1]
         # symbolic_dense_output_bounds.lower.offset[2]

\* C22: whenever a ReLU layer is processed, the symbolic bounds given to the
\* ReLU transformer are the running current bounds (the post-activation
\* symbolic bounds recorded for the layer before it), and the post bounds
\* recorded for the ReLU become the current bounds of the next layer.
C22_ReLUDataflow ==
    [][(InLoop("AbsReLUNode") /\ pc' = "loop")
       => /\ symbolic_activation_output_bounds'
               = compute_relu_output_bounds(current_input_bounds, input_hyper_rect)
          /\ current_input_bounds' = symbolic_activation_output_bounds'
          /\ DictGet(symbolic_bounds', layers[i].identifier)[2]
               = symbolic_activation_output_bounds']_vars

\* C23: when a MaxPool layer is processed, at any position of the network,
\* the step completes without error, the running symbolic bounds are
\* unchanged, and the symbolic, numeric_pre and numeric_post bounds recorded
\* under the identifier of the MaxPool are those recorded for the layer
\* before it.
C23_MaxPoolNotPropagated ==
    [][InLoop("AbsMaxPoolNode")
       => /\ pc' = "loop"
          /\ i' = i + 1
          /\ current_input_bounds' = current_input_bounds
          /\ i >= 2
             => /\ DictGet(symbolic_bounds', layers[i].identifier)
                     = <<symbolic_dense_output_bounds, symbolic_activation_output_bounds>>
                /\ DictGet(numeric_preactivation_bounds', layers[i].identifier)
                     = preactivation_bounds
                /\ DictGet(numeric_postactivation_bounds', layers[i].identifier)
                     = postactivation_bounds]_vars

(***************************************************************************)
(* Properties of the reducer (specification ConvSpec).                     *)
(***************************************************************************)

\* C7: Conv-FC equivalence.  For a ConvNode that constructs and any input X,
\* get_weights_as_fc_matrices returns one matrix per filter, of
\* out_rows * out_cols rows and one column per element of X, and the product
\* of the matrix of filter f with the channel-innermost flattening of X is
\* the direct convolution of X (without bias) at every output position.
C7_ConvFCEquivalence ==
    fc_matrices # Unbound
    => /\ fc_matrices.ok
       /\ Len(fc_matrices.m) = conv_node.out_dim[1]
       /\ \A f \in 1..conv_node.out_dim[1] :
             /\ fc_matrices.m[f].nr = conv_node.out_dim[2] * conv_node.out_dim[3]
             /\ fc_matrices.m[f].nc = Len(conv_input)
             /\ \A oy \in 0..(conv_node.out_dim[2] - 1) :
                   \A ox \in 0..(conv_node.out_dim[3] - 1) :
                      MatVec(ToRatMatrix(fc_matrices.m[f].d), conv_input)
                            [oy * conv_node.out_dim[3] + ox + 1]
                        = DirectConvAt(conv_node, conv_input, f, oy, ox)

\* C27: reducer/shape consistency.  For every ConvNode that constructs on
\* an in_dim of rank 3, get_weights_as_fc_matrices returns out_channels
\* matrices, each with as many rows as the output has positions (height
\* times width of out_dim) and as many columns as the input has elements
\* (the product of in_dim).
C27_ReducerShape ==
    fc_matrices # Unbound
    => /\ fc_matrices.ok
       /\ Len(fc_matrices.m) = conv_node.out_channels
       /\ \A f \in 1..Len(fc_matrices.m) :
             /\ fc_matrices.m[f].nr = conv_node.out_dim[2] * conv_node.out_dim[3]
             /\ fc_matrices.m[f].nc
                  = conv_node.in_dim[1] * conv_node.in_dim[2] * conv_node.in_dim[3]

(***************************************************************************)
(* Properties of update_input (specification NodeSpec).                    *)
(***************************************************************************)

\* C8: shape round-trip.  For every layer class, as long as every call of
\* update_input has passed the in_dim of the construction, the last call
\* returned and out_dim is the out_dim of the construction.
C8_ShapeRoundTrip ==
    (node_exc # "none" /\ same_in_dim)
    => (node_exc = "ok" /\ node.out_dim = node0.out_dim /\ node.in_dim = node0.in_dim)

\* calls with the in_dim of the construction have returned, on a node whose
\* out_dim is not its in_dim
C8_Witness ==
    /\ node_exc = "ok"
    /\ same_in_dim
    /\ node.class \in {"FullyConnectedNode", "ConvNode", "UnsqueezeNode"}
    /\ node.out_dim = node0.out_dim
    /\ node.out_dim # node.in_dim

\* the attributes given at construction: all but in_dim, out_dim and the
\* values derived from in_dim
DerivedFromInDim == {"in_dim", "out_dim", "in_features", "in_channels", "num_features"}

\* C9: after any sequence of calls of update_input that all returned, every
\* parameter given at construction (weights, biases, scalar hyperparameters)
\* has the value it had after construction.
C9_ParametersPreserved ==
    (node_exc # "none" /\ all_ok)
    => \A f \in (DOMAIN node0) \ DerivedFromInDim : node[f] = node0[f]

\* C26: a failed update_input is atomic.  For every layer class, a call of
\* update_input that raises leaves every attribute of the layer (in_dim,
\* out_dim and all parameters) as it was before the call.
C26_FailedUpdateAtomic ==
    [][(node_exc' \notin {"none", "ok"}) => node' = node]_vars

(***************************************************************************)
(* Properties of the ReLU envelope functions (specification CoefSpec).     *)
(***************************************************************************)

\* C12: the lower envelope.  For every pair of corners (l, u) with l <= u the
\* pair (k, b) that get_array_lin_lower_bound_coefficients computes is (0, 0)
\* if u <= 0; otherwise (1, 0) if l >= 0; otherwise (u / (u - l), 0).
C12_LowerEnvelope ==
    envelope = "lower"
    => \A a \in 1..Len(corners.lower) :
          LET l == corners.lower[a]
              u == corners.upper[a]
          IN  RLe(l, u) =>
              <<ks_bs.ks[a], ks_bs.bs[a]>> =
                 (IF RLe(u, Zero) THEN <<Zero, Zero>>
                  ELSE IF RLe(Zero, l) THEN <<One, Zero>>
                  ELSE <<RDiv(u, RSub(u, l)), Zero>>)

\* C13: the upper envelope.  For every pair of corners (l, u) with l <= u the
\* pair (k, b) that get_array_lin_upper_bound_coefficients computes is (0, 0)
\* if u <= 0; otherwise (1, 0) if l >= 0; otherwise
\* (u / (u - l), -(u * l) / (u - l)).
C13_UpperEnvelope ==
    envelope = "upper"
    => \A a \in 1..Len(corners.lower) :
          LET l == corners.lower[a]
              u == corners.upper[a]
          IN  RLe(l, u) =>
              <<ks_bs.ks[a], ks_bs.bs[a]>> =
                 (IF RLe(u, Zero) THEN <<Zero, Zero>>
                  ELSE IF RLe(Zero, l) THEN <<One, Zero>>
                  ELSE <<RDiv(u, RSub(u, l)), RDiv(RNeg(RMul(u, l)), RSub(u, l))>>)

LastReturned ==
    IF updated # Unbound /\ updated.res.ok
    THEN [self |-> updated.res.self, in_dim |-> updated.in_dim]
    ELSE [self |-> outcome.self, in_dim |-> request.in_dim]

\* floor(n / d) for d > 0
Floor(n, d) == CHOOSE q \in -(Abs(n) + 1)..(Abs(n) + 1) : q * d <= n /\ n < (q + 1) * d

\* C15: for every Conv layer that a constructor call or an update_input call
\* has built, out_dim[0] is out_channels and for each spatial axis i
\* out_dim[i] = floor((in_dim[i] + padding[i-1] + padding[i-1+rank-1]
\*                    - dilation[i-1] * (kernel[i-1] - 1) - 1) / stride[i-1]) + 1.
C15_ConvOutDim ==
    (outcome # Unbound /\ outcome.ok /\ request.class = "ConvNode")
    => LET n == LastReturned.self
           in_dim == LastReturned.in_dim
           rank == Len(in_dim)
       IN  /\ n.in_dim = in_dim
           /\ Len(n.out_dim) = rank
           /\ n.out_dim[1] = n.out_channels
           /\ \A a \in 2..rank :
                 n.out_dim[a] =
                    Floor(in_dim[a] + n.padding[a - 1] + n.padding[a - 1 + rank - 1]
                          - n.dilation[a - 1] * (n.kernel_size[a - 1] - 1) - 1,
                          n.stride[a - 1]) + 1

\* a Conv layer built with a begin padding that differs from the end padding
\* on both axes, a stride of 2 on the first axis and a dilation of 2
C15_Witness ==
    /\ outcome # Unbound /\ outcome.ok
    /\ request.class = "ConvNode"
    /\ request.in_dim = <<2, 3, 4>>
    /\ request.args.padding = <<0, 1, 2, 0>>
    /\ request.args.kernel_size = <<2, 2>>
    /\ request.args.stride = <<2, 1>>
    /\ request.args.dilation = <<2, 1>>
    /\ outcome.self.out_dim = <<2, 2, 4>>

\* ReLU, Sigmoid, Tanh, ELU, CELU, LeakyReLU, Dropout, LRN
IdentityShapeClasses ==
    {"ReLUNode", "SigmoidNode", "TanhNode", "ELUNode", "CELUNode", "LeakyReLUNode",
     "DropoutNode", "LRNNode"}

\* in_dim is empty, or of rank < 2 for LRN
TooShort(class, in_dim) == Len(in_dim) < (IF class = "LRNNode" THEN 2 ELSE 1)

\* C16: for every identity-shape activation, a constructor call and an
\* update_input call with an empty in_dim (of rank < 2 for LRN) raise, and
\* every call that returns leaves out_dim = in_dim.
C16_IdentityShape ==
    request.class \in IdentityShapeClasses
    => /\ outcome # Unbound
          => /\ TooShort(request.class, request.in_dim) => ~outcome.ok
             /\ outcome.ok => /\ outcome.self.in_dim = request.in_dim
                               /\ outcome.self.out_dim = request.in_dim
       /\ updated # Unbound
          => /\ TooShort(request.class, updated.in_dim) => ~updated.res.ok
             /\ updated.res.ok => /\ updated.res.self.in_dim = updated.in_dim
                                   /\ updated.res.self.out_dim = updated.in_dim

\* the output positions (from 0) that axes names in an output of the given
\* rank: a negative axis counts from the end of the output
OutputPositions(axes, rank) ==
    {IF axes[a] < 0 THEN axes[a] + rank ELSE axes[a] : a \in 1..Len(axes)}

\* the entries of t at the positions (from 0) that are not in P, in order
EntriesOutside(t, P) ==
    LET kept == {q \in 1..Len(t) : (q - 1) \notin P}
    IN  [j \in 1..Cardinality(kept) |->
            t[CHOOSE q \in kept : Cardinality({x \in kept : x <= q}) = j]]

\* C17: for every Unsqueeze layer built with valid axes (unique, non-empty,
\* each in [-(r+k), r+k-1], naming k distinct output positions), out_dim has
\* rank r + k, has a 1 at each output position that axes names, and its other
\* r entries are the entries of in_dim in their order.
C17_UnsqueezeOutDim ==
    (outcome # Unbound /\ outcome.ok /\ request.class = "UnsqueezeNode")
    => LET n == LastReturned.self
           in_dim == LastReturned.in_dim
           rank == Len(in_dim) + Len(n.axes)
           P == OutputPositions(n.axes, rank)
       IN  Cardinality(P) = Len(n.axes)
           => /\ Len(n.out_dim) = rank
              /\ \A q \in P : n.out_dim[q + 1] = 1
              /\ EntriesOutside(n.out_dim, P) = in_dim

\* the product of the entries of t
Prod(t) == IProd(t, Len(t))

\* C18: a Flatten constructor call with an axis outside [-r, r] raises; for
\* every Flatten layer built, out_dim is (1, product of in_dim) when
\* axis = 0 and otherwise (product of in_dim[0:axis], product of the other
\* entries), a negative axis counting from the end of in_dim.
C18_FlattenOutDim ==
    (outcome # Unbound /\ request.class = "FlattenNode")
    => /\ (request.args.axis < -Len(request.in_dim)
           \/ request.args.axis > Len(request.in_dim)) => ~outcome.ok
       /\ outcome.ok
          => LET n == LastReturned.self
                 in_dim == LastReturned.in_dim
                 r == Len(in_dim)
                 split == IF n.axis < 0 THEN r + n.axis ELSE n.axis
             IN  n.out_dim =
                    (IF n.axis = 0 THEN <<1, Prod(in_dim)>>
                     ELSE <<Prod(SubSeq(in_dim, 1, split)),
                            Prod(SubSeq(in_dim, split + 1, r))>>)

\* pm is a permutation of range(r)
IsPermutation(pm, r) == Len(pm) = r /\ SeqToSet(pm) = 0..(r - 1)

\* C19: every Transpose layer that a constructor call or an update_input call
\* has built has a perm that is a permutation of range(r), r = len(in_dim),
\* and out_dim[i] = in_dim[perm[i]] for every i; a constructor call with a
\* perm that is not such a permutation raises.
C19_TransposePerm ==
    (outcome # Unbound /\ request.class = "TransposeNode")
    => /\ (request.args.perm # None
           /\ ~IsPermutation(request.args.perm[1], Len(request.in_dim))) => ~outcome.ok
       /\ outcome.ok
          => LET n == LastReturned.self
                 in_dim == LastReturned.in_dim
             IN  /\ IsPermutation(n.perm, Len(in_dim))
                 /\ Len(n.out_dim) = Len(in_dim)
                 /\ \A a \in 1..Len(in_dim) : n.out_dim[a] = in_dim[n.perm[a] + 1]

\* C20: every Concat layer that a constructor call or an update_input call
\* has built has a second shape of the rank of in_dim, equal to in_dim on
\* every axis but the concat axis, and out_dim is in_dim with that axis
\* summed; every Sum layer built has a second shape identical to in_dim and
\* out_dim = in_dim.
C20_BinaryOpShapes ==
    (outcome # Unbound /\ outcome.ok /\ request.class \in {"ConcatNode", "SumNode"})
    => LET n == LastReturned.self
           in_dim == LastReturned.in_dim
           r == Len(in_dim)
       IN  IF request.class = "SumNode"
           THEN n.in_dim_second = in_dim /\ n.out_dim = in_dim
           ELSE LET jolly_dim == IF n.axis < 0 THEN r + n.axis ELSE n.axis
                IN  /\ Len(n.in_dim_second) = r
                    /\ \A a \in 1..r : a # jolly_dim + 1 => n.in_dim_second[a] = in_dim[a]
                    /\ n.out_dim = [a \in 1..r |->
                                       IF a = jolly_dim + 1
                                       THEN in_dim[a] + n.in_dim_second[a]
                                       ELSE in_dim[a]]

(***************************************************************************)
(* Properties of the launcher (specification LauncherSpec).                *)
(***************************************************************************)
TimeoutMarker == <<"---", "---">>

\* the two fields appended for the k-th setting that was started, if the row
\* had exactly two fields per setting
FieldsOf(k) == SubSeq(part_string, 2 * k, 2 * k + 1)

TimedOut == \E a \in 1..Len(part_string) : part_string[a] = "---"

C28_ExactlyOneAppend ==
    at \in {"for", "log", "returned"}
    => /\ Len(part_string) = 1 + 2 * Len(logger_stream)
       /\ \A k \in 1..Len(logger_stream) :
             \/ FieldsOf(k) = TimeoutMarker
             \/ /\ FieldsOf(k)[1] \in {FormatBool(b) : b \in BOOLEAN}
                /\ FieldsOf(k)[2] \in {FormatSeconds(t) : t \in VerifyTimes}

====
